---- MODULE Spec2Model ----
(***************************************************************************)
(* Dreamwell influencer agent: the bounded ReAct loop of backend_main.py   *)
(* (agent_orchestrator behind POST /api/generate) and the thread store of  *)
(* mcp_server.py (send_reply / mark_as_processed behind POST /api/send);   *)
(* the store tools called directly (ToolSpec); the channel resolver, the   *)
(* pricing engine and the negotiation validator (PricingSpec).             *)
(***************************************************************************)
EXTENDS Integers, Sequences, FiniteSets, TLC

VARIABLES
    pc,                \* position of the /api/generate request
    i,                 \* loop variable of `for i in range(MAX_ITERATIONS)`
    messages,          \* the message history list
    assistant_msg,     \* local: the response of the current round
    callIdx,           \* position in `for tool_call in assistant_msg.tool_calls`
    pricing_breakdown, \* local: <<>> is None, <<b>> a captured breakdown
    response,          \* what generate_response hands to the HTTP layer
    llmCalls,          \* completion provider: number of invocations received
    llmSeen,           \* completion provider: `messages` of the last invocation
    toolLog,           \* MCP session: the tool calls handled, in order
    budget,            \* irregular events the environment may still produce
    emails,            \* mcp_server.emails: the in-memory thread store
    spc,               \* position of each /api/send request
    sendLog,           \* MCP session: tool calls of the /api/send requests
    lastCall           \* MCP server: the tool call it handled last

vars == <<pc, i, messages, assistant_msg, callIdx, pricing_breakdown, response,
          llmCalls, llmSeen, toolLog, budget, emails, spc, sendLog, lastCall>>

orchVars == <<pc, i, messages, assistant_msg, callIdx, pricing_breakdown,
              response, llmCalls, llmSeen, toolLog, budget>>

sendVars == <<emails, spc, sendLog, lastCall>>

-----------------------------------------------------------------------------
(* Bounds of the model *)

\* irregular events per run: anything but a well-formed fetch_channel_data
\* call answered with its success payload, one call per round, null content
MaxIrregular == 2

\* tool calls one provider response may request
MaxCallsPerRound == 2

\* concurrent POST /api/send requests
MaxRequests == 2

(* Program constants *)

MAX_ITERATIONS == 5

-----------------------------------------------------------------------------
(* Strings.  A Python str is a sequence of characters; the texts the       *)
(* provider may produce are listed here with their characters.             *)

Texts == {"", "Hello", "We ACCEPT", "I decline", "Negotiating", "decline or accept",
          "accept, negotiate"}

Chars(s) ==
    CASE s = "" -> <<>>
      [] s = "Hello" -> <<"H","e","l","l","o">>
      [] s = "We ACCEPT" -> <<"W","e"," ","A","C","C","E","P","T">>
      [] s = "I decline" -> <<"I"," ","d","e","c","l","i","n","e">>
      [] s = "Negotiating" -> <<"N","e","g","o","t","i","a","t","i","n","g">>
      [] s = "decline or accept" ->
            <<"d","e","c","l","i","n","e"," ","o","r"," ","a","c","c","e","p","t">>
      [] s = "accept, negotiate" ->
            <<"a","c","c","e","p","t",","," ","n","e","g","o","t","i","a","t","e">>
      [] s = "negotiat" -> <<"n","e","g","o","t","i","a","t">>
      [] s = "accept" -> <<"a","c","c","e","p","t">>
      [] s = "decline" -> <<"d","e","c","l","i","n","e">>
      [] s = " " -> <<" ">>
      [] s = "tech" -> <<"t","e","c","h">>
      [] s = "ai" -> <<"a","i">>
      [] s = "finance" -> <<"f","i","n","a","n","c","e">>
      [] s = "money" -> <<"m","o","n","e","y">>
      [] s = "game" -> <<"g","a","m","e">>
      [] s = "gaming" -> <<"g","a","m","i","n","g">>
      [] s = "Tech Reviews" -> <<"T","e","c","h"," ","R","e","v","i","e","w","s">>
      [] s = "Finance Tips" -> <<"F","i","n","a","n","c","e"," ","T","i","p","s">>
      [] s = "Gaming Channel" -> <<"G","a","m","i","n","g"," ","C","h","a","n","n","e","l">>
      [] s = "Lifestyle" -> <<"L","i","f","e","s","t","y","l","e">>
      [] s = "Daily vlogs" -> <<"D","a","i","l","y"," ","v","l","o","g","s">>
      [] s = "Cooking" -> <<"C","o","o","k","i","n","g">>
      [] s = "Home recipes" -> <<"H","o","m","e"," ","r","e","c","i","p","e","s">>
      [] s = "food" -> <<"f","o","o","d">>
      [] s = "AI and technology" ->
            <<"A","I"," ","a","n","d"," ","t","e","c","h","n","o","l","o","g","y">>
      [] s = "Personal finance and money" ->
            <<"P","e","r","s","o","n","a","l"," ","f","i","n","a","n","c","e"," ",
              "a","n","d"," ","m","o","n","e","y">>
      [] s = "Let's plays and gaming" ->
            <<"L","e","t","'","s"," ","p","l","a","y","s"," ","a","n","d"," ",
              "g","a","m","i","n","g">>
      [] s = "vlogs" -> <<"v","l","o","g","s">>

\* str.lower() on one character
LowerChar(c) ==
    CASE c = "A" -> "a" [] c = "C" -> "c" [] c = "E" -> "e" [] c = "P" -> "p"
      [] c = "T" -> "t" [] c = "H" -> "h" [] c = "W" -> "w" [] c = "I" -> "i"
      [] c = "N" -> "n" [] c = "R" -> "r" [] c = "F" -> "f" [] c = "G" -> "g"
      [] c = "L" -> "l" [] c = "D" -> "d" [] OTHER -> c

\* str.lower()
Lower(cs) == [n \in 1..Len(cs) |-> LowerChar(cs[n])]

\* `needle in hay` on strings
Contains(hay, needle) ==
    \E s \in 0..(Len(hay) - Len(needle)) :
        \A n \in 1..Len(needle) : hay[s + n] = needle[n]

-----------------------------------------------------------------------------
(* Tool results as the MCP session returns them *)

\* JSON texts a tool may answer with, and json.loads of each
JsonTexts == {"json:okA", "json:okB", "json:fail", "json:chan"}

IsJson(s) == s \in JsonTexts

json_loads(s) ==
    CASE s = "json:okA" -> [success |-> TRUE,  offer_price |-> 100, base_cpm |-> 20, final_cpm |-> 20]
      [] s = "json:okB" -> [success |-> TRUE,  offer_price |-> 325, base_cpm |-> 32, final_cpm |-> 65]
      [] s = "json:fail" -> [success |-> FALSE, offer_price |-> 0, base_cpm |-> 0, final_cpm |-> 0]
      [] s = "json:chan" -> [success |-> TRUE,  offer_price |-> 0, base_cpm |-> 0, final_cpm |-> 0]

\* CallToolResult: a content list of items; only a text item has .text
TextResult(s) == [content |-> <<[type |-> "text", text |-> s]>>]
ImageResult == [content |-> <<[type |-> "image", text |-> ""]>>]
EmptyResult == [content |-> <<>>]

PRICING == "calculate_offer_price"
FETCH == "fetch_channel_data"

\* the results session.call_tool may return for a tool
ToolReturns(name) ==
    IF name = PRICING
    THEN { TextResult("json:okA"), TextResult("json:okB"), TextResult("json:fail"),
           TextResult("Error executing tool"), ImageResult, EmptyResult }
    ELSE { TextResult("json:chan"), TextResult("json:fail"), EmptyResult }

RoutineResult == TextResult("json:chan")

-----------------------------------------------------------------------------
(* The thread store (mcp_server.emails, loaded from the fixtures) *)

ThreadIds == {"t1", "t2", "t3"}

\* the order of the threads in the list `emails`
EmailOrder == <<"t1", "t2", "t3">>

\* a message; a timestamp is the instant it names, counted in clock ticks
Message(from, body, timestamp) ==
    [from |-> from, body |-> body, timestamp |-> timestamp]

\* the store loaded from fixtures whose inbound messages carry the times f
Fixture(f) ==
    [t \in ThreadIds |->
        [thread |-> <<Message("influencer", "inbound", f[t])>>, status |-> "open"]]

InitialEmails == Fixture([t \in ThreadIds |-> 1])

RECURSIVE MaxOf(_)
MaxOf(S) == IF S = {} THEN 0
            ELSE LET x == CHOOSE y \in S : TRUE
                     m == MaxOf(S \ {x})
                 IN  IF x > m THEN x ELSE m

\* datetime.now() at a call on the store: later than every message in it
Now(store) ==
    1 + MaxOf(UNION {{store[t].thread[j].timestamp : j \in 1..Len(store[t].thread)} :
                        t \in DOMAIN store})

\* find_email_by_thread_id(thread_id) is not None
find_email_by_thread_id(store, thread_id) == thread_id \in DOMAIN store

\* the get_email_thread tool
get_email_thread(store, thread_id) ==
    IF find_email_by_thread_id(store, thread_id)
    THEN [success |-> TRUE, data |-> thread_id, error |-> ""]
    ELSE [success |-> FALSE, data |-> "", error |-> "Thread not found"]

\* the reply rebuilt on the thread as loaded, not on the thread as it is
send_reply_Stale(store, thread_id, content) ==
    IF find_email_by_thread_id(store, thread_id)
    THEN [store EXCEPT ![thread_id].thread =
            Append(InitialEmails[thread_id].thread,
                   Message("brand", content, Now(store)))]
    ELSE store

\* the reply appended and the thread put back to open
send_reply_Reopens(store, thread_id, content) ==
    IF find_email_by_thread_id(store, thread_id)
    THEN [store EXCEPT ![thread_id].thread =
                           Append(@, Message("brand", content, Now(store))),
                       ![thread_id].status = "open"]
    ELSE store

\* the send_reply tool: the store after the call
send_reply(store, thread_id, content) ==
    IF find_email_by_thread_id(store, thread_id)
    THEN [store EXCEPT ![thread_id].thread =
            Append(@, Message("brand", content, Now(store)))]
    ELSE store

\* the status flipped instead of set
mark_as_processed_Toggles(store, thread_id) ==
    IF find_email_by_thread_id(store, thread_id)
    THEN [store EXCEPT ![thread_id].status =
            IF @ = "processed" THEN "open" ELSE "processed"]
    ELSE store

\* the lookup skipped: an id that names no thread marks them all
mark_as_processed_Unchecked(store, thread_id) ==
    IF find_email_by_thread_id(store, thread_id)
    THEN [store EXCEPT ![thread_id].status = "processed"]
    ELSE [t \in DOMAIN store |-> [store[t] EXCEPT !.status = "processed"]]

\* the mark_as_processed tool: the store after the call
mark_as_processed(store, thread_id) ==
    IF find_email_by_thread_id(store, thread_id)
    THEN [store EXCEPT ![thread_id].status = "processed"]
    ELSE store

\* the success flag send_reply and mark_as_processed answer with
tool_success(store, thread_id) == find_email_by_thread_id(store, thread_id)

-----------------------------------------------------------------------------
(* POST /api/send: one record per request *)

IdleRequest ==
    [pc |-> "idle", thread_id |-> "", content |-> "", status |-> 0, success |-> FALSE]

\* no tool call handled yet
NoCall == [tool |-> ""]

\* the record of one handled call: the store as the call found it, the
\* arguments, and what the tool function returned or raised
Call(tool, arg, content, before, raised, result) ==
    [tool |-> tool, arg |-> arg, content |-> content, before |-> before,
     raised |-> raised, result |-> result]

-----------------------------------------------------------------------------
(* agent_orchestrator: the message history *)

None == <<>>
Some(x) == <<x>>

\* a dict appended to `messages` (no attribute access on it)
DictMessage(role, content, id) ==
    [obj |-> FALSE, role |-> role, content |-> content, tool_calls |-> <<>>,
     tool_call_id |-> id]

\* response.choices[0].message: an SDK object with .content and .tool_calls
AssistantMessage(content, calls) ==
    [obj |-> TRUE, role |-> "assistant", content |-> content, tool_calls |-> calls,
     tool_call_id |-> 0]

NoMessage == AssistantMessage(None, <<>>)

InitialMessages(thread_id) ==
    << DictMessage("system", Some("system_prompt"), 0),
       DictMessage("user", Some("Email Context"), 0) >>

\* every result filed under the id of the round's first call
ToolMessage_FirstId(tool_call, tool_output) ==
    DictMessage("tool", Some(tool_output), 10 * (tool_call.id \div 10) + 1)

\* the {"role": "tool", ...} dict of one handled call
ToolMessage(tool_call, tool_output) ==
    DictMessage("tool", Some(tool_output), tool_call.id)

\* f"Error: {str(e)}"
ErrorContent(e) ==
    CASE e = "JSONDecodeError" -> "Error: JSONDecodeError"
      [] e = "McpError" -> "Error: McpError"

IsErrorContent(s) == s \in {"Error: JSONDecodeError", "Error: McpError"}

\* the text the loop makes of a CallToolResult
ToolOutput(result) ==
    IF Len(result.content) > 0
    THEN IF result.content[1].type = "text"
         THEN result.content[1].text
         ELSE "str(content[0])"
    ELSE "str(result)"

\* the flat structure the frontend expects
Breakdown(data) ==
    [recommended_offer |-> data.offer_price, base_cpm |-> data.base_cpm,
     final_cpm |-> data.final_cpm]

\* a pricing call without a success payload resets the captured breakdown
CapturePricing_Resets(t_name, result, pb) ==
    IF /\ Len(result.content) > 0
       /\ result.content[1].type = "text"
       /\ t_name = PRICING
       /\ IsJson(result.content[1].text)
       /\ json_loads(result.content[1].text).success
    THEN Some(Breakdown(json_loads(result.content[1].text)))
    ELSE IF t_name = PRICING THEN None ELSE pb

\* pricing_breakdown after one handled call that returned `result`
CapturePricing(t_name, result, pb) ==
    IF /\ Len(result.content) > 0
       /\ result.content[1].type = "text"
       /\ t_name = PRICING
       /\ IsJson(result.content[1].text)
       /\ json_loads(result.content[1].text).success
    THEN Some(Breakdown(json_loads(result.content[1].text)))
    ELSE pb

\* the loop bound taken inclusively
LoopContinues_Inclusive(k) == k + 1 <= MAX_ITERATIONS

\* `for i in range(MAX_ITERATIONS)`: another iteration follows iteration k
LoopContinues(k) == k + 1 < MAX_ITERATIONS

\* the heuristic with "accept" tested before "negotiat"
DeriveCategory_AcceptFirst(last_content) ==
    IF last_content = None \/ Chars(last_content[1]) = <<>>
    THEN "response"
    ELSE LET lower_content == Lower(Chars(last_content[1]))
         IN  IF Contains(lower_content, Chars("accept")) THEN "acceptance"
             ELSE IF Contains(lower_content, Chars("negotiat")) THEN "negotiation"
             ELSE IF Contains(lower_content, Chars("decline")) THEN "rejection"
             ELSE "response"

\* the category heuristic over messages[-1].content
DeriveCategory(last_content) ==
    IF last_content = None \/ Chars(last_content[1]) = <<>>
    THEN "response"
    ELSE LET lower_content == Lower(Chars(last_content[1]))
         IN  IF Contains(lower_content, Chars("negotiat")) THEN "negotiation"
             ELSE IF Contains(lower_content, Chars("accept")) THEN "acceptance"
             ELSE IF Contains(lower_content, Chars("decline")) THEN "rejection"
             ELSE "response"

-----------------------------------------------------------------------------
(* What generate_response answers *)

NoResponse ==
    [status |-> 0, detail |-> "", category |-> "", response_draft |-> None,
     pricing_breakdown |-> None, iterations_used |-> 0]

HttpError(status, detail) == [NoResponse EXCEPT !.status = status, !.detail = detail]

\* the loop variable returned as it is, not i + 1
Finish_LoopVariable(msgs, pb, k) ==
    LET last == msgs[Len(msgs)]
    IN  IF ~last.obj
        THEN HttpError(500, "AttributeError")
        ELSE [status |-> 200, detail |-> "",
              category |-> DeriveCategory(last.content),
              response_draft |-> last.content,
              pricing_breakdown |-> pb,
              iterations_used |-> k]

\* lines 273-288 of agent_orchestrator, returned through generate_response;
\* messages[-1].content raises AttributeError when messages[-1] is a dict
Finish(msgs, pb, k) ==
    LET last == msgs[Len(msgs)]
    IN  IF ~last.obj
        THEN HttpError(500, "AttributeError")
        ELSE [status |-> 200, detail |-> "",
              category |-> DeriveCategory(last.content),
              response_draft |-> last.content,
              pricing_breakdown |-> pb,
              iterations_used |-> k + 1]

-----------------------------------------------------------------------------
(* The completion provider's answers *)

\* a requested tool call: tool_call.id, .function.name, and whether
\* .function.arguments is well-formed JSON
ToolCall(id, name, args_ok) == [id |-> id, name |-> name, args_ok |-> args_ok]

\* ids are unique over a run: round r, position n
CallId(r, n) == 10 * r + n

CallKinds == {PRICING, FETCH} \X BOOLEAN

IsRoutineKind(kind) == kind[1] = FETCH /\ kind[2]

\* the request lists of round r that cost at most b irregular events:
\* every call beyond the first and every call that is no routine fetch is one
CallLists(r, b) ==
    UNION { { [n \in 1..len |-> ToolCall(CallId(r, n), kinds[n][1], kinds[n][2])] :
                kinds \in { ks \in [1..len -> CallKinds] :
                              (len - 1) + Cardinality({n \in 1..len : ~IsRoutineKind(ks[n])}) <= b } }
            : len \in 1..MaxCallsPerRound }

CallListCost(calls) ==
    (Len(calls) - 1)
    + Cardinality({n \in 1..Len(calls) : ~IsRoutineKind(<<calls[n].name, calls[n].args_ok>>)})

-----------------------------------------------------------------------------
(* POST /api/generate *)

LogEntry(r, tool_call, outcome, result) ==
    [round |-> r, id |-> tool_call.id, name |-> tool_call.name,
     outcome |-> outcome, result |-> result]

Init ==
    /\ pc = "idle"
    /\ i = 0
    /\ messages = <<>>
    /\ assistant_msg = NoMessage
    /\ callIdx = 0
    /\ pricing_breakdown = None
    /\ response = NoResponse
    /\ llmCalls = 0
    /\ llmSeen = <<>>
    /\ toolLog = <<>>
    /\ budget = MaxIrregular
    /\ emails = InitialEmails
    /\ spc = [r \in 1..MaxRequests |-> IdleRequest]
    /\ sendLog = <<>>
    /\ lastCall = NoCall

\* the thread's lookup as generate_response makes it
ThreadLookup(thread_id) ==
    Call("get_email_thread", thread_id, "", emails, FALSE,
         get_email_thread(emails, thread_id))

\* the orchestrator entered although the thread was not found
GenerateRequest_EntersLoop ==
    /\ pc = "idle"
    /\ \E thread_id \in {"", "t1", "t9"} :
         IF thread_id = ""
         THEN /\ response' = HttpError(400, "thread_id is required")
              /\ pc' = "done"
              /\ UNCHANGED <<messages, lastCall>>
         ELSE /\ lastCall' = ThreadLookup(thread_id)
              /\ messages' = InitialMessages(thread_id)
              /\ pc' = "reasoning"
              /\ UNCHANGED response
    /\ UNCHANGED <<i, assistant_msg, callIdx, pricing_breakdown, llmCalls, llmSeen,
                   toolLog, budget>>
    /\ UNCHANGED <<emails, spc, sendLog>>

\* generate_response up to the first completion call: the request is checked,
\* the thread is looked up, and agent_orchestrator builds its history
GenerateRequest ==
    /\ pc = "idle"
    /\ \E thread_id \in {"", "t1", "t9"} :
         IF thread_id = ""
         THEN /\ response' = HttpError(400, "thread_id is required")
              /\ pc' = "done"
              /\ UNCHANGED <<messages, lastCall>>
         ELSE IF ~get_email_thread(emails, thread_id).success
         THEN /\ lastCall' = ThreadLookup(thread_id)
              /\ response' = HttpError(404, get_email_thread(emails, thread_id).error)
              /\ pc' = "done"
              /\ UNCHANGED messages
         ELSE /\ lastCall' = ThreadLookup(thread_id)
              /\ messages' = InitialMessages(thread_id)
              /\ pc' = "reasoning"
              /\ UNCHANGED response
    /\ UNCHANGED <<i, assistant_msg, callIdx, pricing_breakdown, llmCalls, llmSeen,
                   toolLog, budget>>
    /\ UNCHANGED <<emails, spc, sendLog>>

\* the completion call of iteration i answers: the answer is appended; without
\* tool calls the loop breaks and the run returns
LLMResponds ==
    /\ pc = "reasoning"
    /\ llmCalls' = llmCalls + 1
    /\ llmSeen' = messages
    /\ \/ \E text \in ({None} \cup {Some(t) : t \in Texts}) :
            /\ assistant_msg' = AssistantMessage(text, <<>>)
            /\ messages' = Append(messages, assistant_msg')
            /\ response' = Finish(messages', pricing_breakdown, i)
            /\ pc' = "done"
            /\ UNCHANGED <<callIdx, budget>>
       \/ \E text \in {None, Some("Negotiating")} :
          \E calls \in CallLists(i + 1, budget - (IF text = None THEN 0 ELSE 1)) :
            /\ assistant_msg' = AssistantMessage(text, calls)
            /\ messages' = Append(messages, assistant_msg')
            /\ budget' = budget - CallListCost(calls) - (IF text = None THEN 0 ELSE 1)
            /\ callIdx' = 1
            /\ pc' = "executing"
            /\ UNCHANGED response
    /\ UNCHANGED <<i, pricing_breakdown, toolLog>>
    /\ UNCHANGED sendVars

\* the failure swallowed: an empty result is returned instead
LLMRaises_Swallowed ==
    /\ pc = "reasoning"
    /\ llmCalls' = llmCalls + 1
    /\ llmSeen' = messages
    /\ response' = [NoResponse EXCEPT !.status = 200, !.category = "response"]
    /\ pc' = "done"
    /\ UNCHANGED <<i, messages, assistant_msg, callIdx, pricing_breakdown, toolLog, budget>>
    /\ UNCHANGED sendVars

\* the completion call raises (an API error, or the client's own request
\* timeout when the provider stays silent): nothing in agent_orchestrator
\* catches it, and generate_response turns it into a 500
LLMRaises ==
    /\ pc = "reasoning"
    /\ llmCalls' = llmCalls + 1
    /\ llmSeen' = messages
    /\ response' = HttpError(500, "APIError")
    /\ pc' = "done"
    /\ UNCHANGED <<i, messages, assistant_msg, callIdx, pricing_breakdown, toolLog, budget>>
    /\ UNCHANGED sendVars

\* after the body of `for tool_call in ...` for the call at callIdx: the next
\* call, the next iteration, or the end of the loop and the return
Advance(msgs, pb) ==
    IF callIdx < Len(assistant_msg.tool_calls)
    THEN /\ callIdx' = callIdx + 1
         /\ UNCHANGED <<i, pc, response>>
    ELSE IF LoopContinues(i)
    THEN /\ i' = i + 1
         /\ pc' = "reasoning"
         /\ callIdx' = 0
         /\ UNCHANGED response
    ELSE /\ response' = Finish(msgs, pb, i)
         /\ pc' = "done"
         /\ callIdx' = 0
         /\ UNCHANGED i

\* json.loads(tool_call.function.arguments) raises: the except branch appends
\* the error message, the tool is not called
ToolArgsFail ==
    /\ pc = "executing"
    /\ LET tool_call == assistant_msg.tool_calls[callIdx]
       IN  /\ ~tool_call.args_ok
           /\ messages' = Append(messages, ToolMessage(tool_call, ErrorContent("JSONDecodeError")))
           /\ toolLog' = Append(toolLog, LogEntry(i + 1, tool_call, "badargs", EmptyResult))
           /\ Advance(messages', pricing_breakdown)
    /\ UNCHANGED <<assistant_msg, pricing_breakdown, llmCalls, llmSeen, budget>>
    /\ UNCHANGED sendVars

\* session.call_tool returns a result
ToolReturnsResult ==
    /\ pc = "executing"
    /\ LET tool_call == assistant_msg.tool_calls[callIdx]
       IN  /\ tool_call.args_ok
           /\ \E result \in ToolReturns(tool_call.name) :
                LET cost == IF tool_call.name = FETCH /\ result # RoutineResult THEN 1 ELSE 0
                IN  /\ budget >= cost
                    /\ budget' = budget - cost
                    /\ pricing_breakdown' = CapturePricing(tool_call.name, result, pricing_breakdown)
                    /\ messages' = Append(messages, ToolMessage(tool_call, ToolOutput(result)))
                    /\ toolLog' = Append(toolLog, LogEntry(i + 1, tool_call, "returned", result))
                    /\ Advance(messages', pricing_breakdown')
    /\ UNCHANGED <<assistant_msg, llmCalls, llmSeen>>
    /\ UNCHANGED sendVars

\* no try/except around the call: the exception ends the run
ToolRaises_Uncaught ==
    /\ pc = "executing"
    /\ LET tool_call == assistant_msg.tool_calls[callIdx]
           cost == IF tool_call.name = FETCH THEN 1 ELSE 0
       IN  /\ tool_call.args_ok
           /\ budget >= cost
           /\ budget' = budget - cost
           /\ toolLog' = Append(toolLog, LogEntry(i + 1, tool_call, "raised", EmptyResult))
    /\ response' = HttpError(500, "McpError")
    /\ pc' = "done"
    /\ UNCHANGED <<i, messages, assistant_msg, callIdx, pricing_breakdown, llmCalls, llmSeen>>
    /\ UNCHANGED sendVars

\* session.call_tool raises: the except branch appends the error message
ToolRaises ==
    /\ pc = "executing"
    /\ LET tool_call == assistant_msg.tool_calls[callIdx]
           cost == IF tool_call.name = FETCH THEN 1 ELSE 0
       IN  /\ tool_call.args_ok
           /\ budget >= cost
           /\ budget' = budget - cost
           /\ messages' = Append(messages, ToolMessage(tool_call, ErrorContent("McpError")))
           /\ toolLog' = Append(toolLog, LogEntry(i + 1, tool_call, "raised", EmptyResult))
           /\ Advance(messages', pricing_breakdown)
    /\ UNCHANGED <<assistant_msg, pricing_breakdown, llmCalls, llmSeen>>
    /\ UNCHANGED sendVars

\* session.call_tool never returns: the call carries no read timeout and
\* nothing in the run bounds the wait
ToolHangs ==
    /\ pc = "executing"
    /\ LET tool_call == assistant_msg.tool_calls[callIdx]
       IN  /\ tool_call.args_ok
           /\ toolLog' = Append(toolLog, LogEntry(i + 1, tool_call, "hung", EmptyResult))
    /\ pc' = "blocked"
    /\ UNCHANGED <<i, messages, assistant_msg, callIdx, pricing_breakdown, response,
                   llmCalls, llmSeen, budget>>
    /\ UNCHANGED sendVars

Next ==
    \/ GenerateRequest
    \/ LLMResponds
    \/ LLMRaises
    \/ ToolArgsFail
    \/ ToolReturnsResult
    \/ ToolRaises
    \/ ToolHangs

Spec == Init /\ [][Next]_vars

\* the event loop runs every coroutine that can continue
FairSpec == Spec /\ WF_vars(Next)

-----------------------------------------------------------------------------
(* POST /api/send *)

SendLogEntry(r, tool, thread_id) == [req |-> r, tool |-> tool, thread_id |-> thread_id]

\* send_reply_endpoint up to its first await: the body is checked; the
\* HTTPException(400) is raised inside the try and caught by
\* `except Exception`, which answers 500
SendRequest(r) ==
    /\ spc[r].pc = "idle"
    /\ \E thread_id \in {"", "t1", "t2", "t9"}, content \in {"", "replyA", "replyB"} :
         IF thread_id = "" \/ content = ""
         THEN spc' = [spc EXCEPT ![r] = [pc |-> "done", thread_id |-> thread_id,
                                         content |-> content, status |-> 500,
                                         success |-> FALSE]]
         ELSE spc' = [spc EXCEPT ![r] = [pc |-> "sending", thread_id |-> thread_id,
                                         content |-> content, status |-> 0,
                                         success |-> FALSE]]
    /\ UNCHANGED <<emails, sendLog, lastCall>>
    /\ UNCHANGED orchVars

\* the server runs send_reply for request r; the endpoint then awaits
\* mark_as_processed
SendReplyCall(r) ==
    /\ spc[r].pc = "sending"
    /\ emails' = send_reply(emails, spc[r].thread_id, spc[r].content)
    /\ sendLog' = Append(sendLog, SendLogEntry(r, "send_reply", spc[r].thread_id))
    /\ spc' = [spc EXCEPT ![r].pc = "marking",
                          ![r].success = tool_success(emails, spc[r].thread_id)]
    /\ UNCHANGED lastCall
    /\ UNCHANGED orchVars

\* the server runs mark_as_processed for request r; the endpoint returns the
\* send_reply result
MarkProcessedCall(r) ==
    /\ spc[r].pc = "marking"
    /\ emails' = mark_as_processed(emails, spc[r].thread_id)
    /\ sendLog' = Append(sendLog, SendLogEntry(r, "mark_as_processed", spc[r].thread_id))
    /\ spc' = [spc EXCEPT ![r].pc = "done", ![r].status = 200]
    /\ UNCHANGED lastCall
    /\ UNCHANGED orchVars

SendNext ==
    \E r \in 1..MaxRequests :
        \/ SendRequest(r)
        \/ SendReplyCall(r)
        \/ MarkProcessedCall(r)

SendSpec == Init /\ [][SendNext]_vars

-----------------------------------------------------------------------------
(* Reading the history *)

\* the positions of the provider's answers in the history
AssistantIndexes == {j \in 1..Len(messages) : messages[j].role = "assistant"}

\* the rounds the provider answered with a tool request
ToolRounds ==
    Cardinality({j \in AssistantIndexes : Len(messages[j].tool_calls) > 0})

LastMessage == messages[Len(messages)]

-----------------------------------------------------------------------------
\* C1: whatever the provider answers and whatever the tools return or raise,
\* the completion provider is invoked at most 5 times in a run.
C1_AtMostFiveProviderCalls == llmCalls <= 5

C1_Witness == llmCalls = 5 /\ pc = "executing"

\* C2: when the provider requested a tool call in each of 5 rounds, the run
\* ends with a result (status 200) whose iterations_used is 5 and whose
\* response_draft is the content of the last assistant message.
C2_CapReachedReturnsDraft ==
    (pc = "done" /\ ToolRounds = 5) =>
        /\ response.status = 200
        /\ response.iterations_used = 5
        /\ response.response_draft = assistant_msg.content

-----------------------------------------------------------------------------
(* Reading the tool log *)

\* the calls the provider requested in round r (<<>> when it requested none)
RequestedIn(r) ==
    LET js == {j \in AssistantIndexes :
                 /\ Len(messages[j].tool_calls) > 0
                 /\ messages[j].tool_calls[1].id \div 10 = r}
    IN  IF js = {} THEN <<>> ELSE messages[CHOOSE j \in js : TRUE].tool_calls

FailedEntries ==
    {n \in 1..Len(toolLog) : toolLog[n].outcome \in {"badargs", "raised"}}

\* the history holds an error-content tool result for the call of log entry n
ErrorResultFiled(n) ==
    \E j \in 1..Len(messages) :
        /\ messages[j].role = "tool"
        /\ messages[j].tool_call_id = toolLog[n].id
        /\ messages[j].content # None
        /\ IsErrorContent(messages[j].content[1])
        /\ (llmCalls > toolLog[n].round => (j <= Len(llmSeen) /\ llmSeen[j] = messages[j]))

\* after log entry n the run went on: to the next call of the round, or,
\* after the round's last call, to the next round's provider invocation
WentOnAfter(n) ==
    LET e == toolLog[n]
        pos == e.id % 10
    IN  IF pos < Len(RequestedIn(e.round))
        THEN \/ pc = "executing" /\ i + 1 = e.round /\ callIdx = pos + 1
             \/ /\ Len(toolLog) > n
                /\ toolLog[n + 1].id = e.id + 1
                /\ toolLog[n + 1].outcome \in {"badargs", "raised", "returned", "hung"}
        ELSE \/ pc = "reasoning" /\ i = e.round
             \/ llmCalls > e.round

\* the provider was handed everything that precedes its answer
FullHistorySeen ==
    llmCalls >= 1 =>
        /\ Len(llmSeen) <= Len(messages)
        /\ SubSeq(messages, 1, Len(llmSeen)) = llmSeen
        /\ \A j \in (Len(llmSeen) + 1)..Len(messages) :
              \/ j = Len(llmSeen) + 1 /\ messages[j] = assistant_msg
              \/ /\ messages[j].role = "tool"
                 /\ messages[j].tool_call_id \div 10 = llmCalls

\* C3: a tool call that fails in a round before the fifth (its arguments do
\* not parse, or the dispatch raises) does not end the run: an error-content
\* tool result is filed for it, the remaining calls of the round are still
\* handled, and the next round's provider invocation is handed the whole
\* history, that error content included.
C3_ToolFailureDoesNotEndRun ==
    /\ FullHistorySeen
    /\ \A n \in FailedEntries :
          toolLog[n].round < 5 => (ErrorResultFiled(n) /\ WentOnAfter(n))

C3_Witness ==
    \E n \in FailedEntries :
        /\ toolLog[n].round < 5
        /\ Len(RequestedIn(toolLog[n].round)) = 2
        /\ toolLog[n].id % 10 = 1
        /\ Len(toolLog) > n
        /\ toolLog[n + 1].outcome = "returned"
        /\ llmCalls = toolLog[n].round + 1
        /\ pc = "executing"

\* C4: when the provider's answer in round k (1..5) requests no tool call,
\* the run is done with no further provider invocation and no tool dispatch
\* in that round; the draft is that answer's content and iterations_used = k.
C4_NoToolCallsMeansDone ==
    (Len(messages) > 2 /\ LastMessage.role = "assistant" /\ LastMessage.tool_calls = <<>>) =>
        LET k == Cardinality(AssistantIndexes)
        IN  /\ pc = "done"
            /\ k \in 1..5
            /\ llmCalls = k
            /\ \A n \in 1..Len(toolLog) : toolLog[n].round < k
            /\ response.status = 200
            /\ response.response_draft = LastMessage.content
            /\ response.iterations_used = k

C4_Witness ==
    /\ pc = "done"
    /\ Len(messages) > 2
    /\ LastMessage.role = "assistant"
    /\ LastMessage.tool_calls = <<>>
    /\ response.iterations_used = 3
    /\ response.response_draft = Some("Hello")

\* the provider was invoked and did not answer
ProviderFailed == llmCalls > Cardinality(AssistantIndexes)

\* C5: when the completion call fails in any round the run is fatal: no
\* draft is returned, no further tool call is handled, and /api/generate
\* answers with a failure (status 500).
C5_ProviderFailureIsFatal ==
    ProviderFailed =>
        /\ pc = "done"
        /\ response.status = 500
        /\ response.response_draft = None
        /\ messages = llmSeen
        /\ \A n \in 1..Len(toolLog) : toolLog[n].round < llmCalls

C5_Witness == ProviderFailed /\ llmCalls = 3 /\ Len(toolLog) = 2

\* C6: every run eventually ends, with a result or a failure, even when the
\* provider or a tool never responds.
C6_RunEventuallyEnds == <>(pc = "done")

\* the pricing calls of the log that returned a success payload
PricingSuccesses ==
    {n \in 1..Len(toolLog) :
        /\ toolLog[n].name = PRICING
        /\ toolLog[n].outcome = "returned"
        /\ toolLog[n].result \in {TextResult("json:okA"), TextResult("json:okB")}}

LastOf(S) == CHOOSE n \in S : \A m \in S : m <= n

\* C7: pricing_breakdown is null exactly when no calculate_offer_price call
\* of the run returned a success payload; otherwise it holds the values of
\* the most recent such call, whatever later pricing calls did; a returned
\* result carries it.
C7_PricingIsLastSuccess ==
    /\ (pricing_breakdown = None) <=> (PricingSuccesses = {})
    /\ PricingSuccesses # {} =>
          LET quote == json_loads(toolLog[LastOf(PricingSuccesses)].result.content[1].text)
          IN  /\ pricing_breakdown[1].recommended_offer = quote.offer_price
              /\ pricing_breakdown[1].final_cpm = quote.final_cpm
              /\ pricing_breakdown[1].base_cpm = quote.base_cpm
    /\ response.status = 200 => response.pricing_breakdown = pricing_breakdown

C7_Witness ==
    /\ response.status = 200
    /\ PricingSuccesses # {}
    /\ LastOf(PricingSuccesses) < Len(toolLog)
    /\ toolLog[Len(toolLog)].name = PRICING
    /\ response.pricing_breakdown # None

\* C8: the returned category depends on the returned draft only, matched
\* without regard to case: "negotiat" gives negotiation; else "accept" gives
\* acceptance; else "decline" gives rejection; else (also for an empty or
\* absent draft) response.
C8_CategoryFromDraft ==
    response.status = 200 =>
        LET text == IF response.response_draft = None THEN <<>>
                    ELSE Lower(Chars(response.response_draft[1]))
            n == Contains(text, Chars("negotiat"))
            a == Contains(text, Chars("accept"))
            d == Contains(text, Chars("decline"))
        IN  /\ n => response.category = "negotiation"
            /\ (~n /\ a) => response.category = "acceptance"
            /\ (~n /\ ~a /\ d) => response.category = "rejection"
            /\ (~n /\ ~a /\ ~d) => response.category = "response"

C8_Witness ==
    /\ response.status = 200
    /\ response.response_draft = Some("accept, negotiate")
    /\ response.category = "negotiation"

\* the tool-result ids filed in the history, in order
RECURSIVE ToolIds(_)
ToolIds(msgs) ==
    IF msgs = <<>> THEN <<>>
    ELSE IF msgs[1].role = "tool"
         THEN <<msgs[1].tool_call_id>> \o ToolIds(Tail(msgs))
         ELSE ToolIds(Tail(msgs))

\* C9: rounds are sequential and the calls of a round are handled one at a
\* time in the order requested: each answer of the provider is followed by
\* the tool results of its calls, one per call, under that call's id, in
\* request order, and all of them are there before the next invocation.
C9_SequentialRoundsOrderedResults ==
    /\ pc = "reasoning" => llmCalls = i
    /\ pc = "executing" => llmCalls = i + 1
    /\ \A j \in AssistantIndexes :
          LET calls == messages[j].tool_calls
          IN  /\ \A k \in 1..Len(calls) :
                    j + k <= Len(messages) =>
                        /\ messages[j + k].role = "tool"
                        /\ messages[j + k].tool_call_id = calls[k].id
              /\ j + Len(calls) < Len(messages) => messages[j + Len(calls) + 1].role = "assistant"
              /\ pc = "reasoning" => j + Len(calls) <= Len(messages)
              /\ (pc = "executing" /\ messages[j] = assistant_msg /\ j > Len(llmSeen)) =>
                    Len(messages) = j + callIdx - 1
    /\ LET filed == ToolIds(messages)
       IN  /\ Len(filed) <= Len(toolLog)
           /\ \A n \in 1..Len(filed) : filed[n] = toolLog[n].id
    /\ \A n \in 1..Len(toolLog) : toolLog[n].outcome = "hung" => n = Len(toolLog)

C9_Witness ==
    /\ pc = "reasoning"
    /\ i = 2
    /\ Len(RequestedIn(2)) = 2
    /\ Len(toolLog) = 3

-----------------------------------------------------------------------------
\* the replies with body c in thread t
RepliesWith(t, c) ==
    {j \in 1..Len(emails[t].thread) :
        emails[t].thread[j].from = "brand" /\ emails[t].thread[j].body = c}

\* the answered send requests on thread t
SentOn(t) == {r \in 1..MaxRequests : spc[r].pc = "done" /\ spc[r].status = 200
                                     /\ spc[r].thread_id = t}

\* C10: when concurrent send requests on one thread id (each a send_reply
\* followed by a mark_as_processed) have been answered, under every
\* interleaving of their tool calls the thread holds a reply for each of
\* them and its status is processed: no update is lost.
C10_NoLostUpdate ==
    \A t \in ThreadIds :
        SentOn(t) # {} =>
            /\ emails[t].status = "processed"
            /\ \A c \in {"replyA", "replyB"} :
                  Cardinality(RepliesWith(t, c))
                      >= Cardinality({r \in SentOn(t) : spc[r].content = c})

C10_Witness ==
    /\ SentOn("t1") = {1, 2}
    /\ spc[1].content = "replyA"
    /\ spc[2].content = "replyA"
    /\ Len(sendLog) = 4
    /\ sendLog[1].tool = "send_reply"
    /\ sendLog[2].tool = "send_reply"
    /\ sendLog[3].req = 2

-----------------------------------------------------------------------------
(* The MCP tools as a client of the server may call them, in any order *)

\* replies sent to the threads in one run of the server
MaxSends == 2

\* the limits a client passes to get_latest_emails: -MaxLimit..MaxLimit
MaxLimit == 4

\* the dict send_reply and mark_as_processed return
thread_tool_return(store, thread_id) ==
    IF tool_success(store, thread_id)
    THEN [success |-> TRUE, data |-> thread_id, error |-> ""]
    ELSE [success |-> FALSE, data |-> "", error |-> "Thread not found"]

\* mcp_server.brands, loaded from the fixtures
BrandIds == {"perplexity", "copyai"}

find_brand_by_id(brand_id) == brand_id \in BrandIds

\* the get_brand_context tool
get_brand_context(brand_id) ==
    IF find_brand_by_id(brand_id)
    THEN [success |-> TRUE, data |-> brand_id, error |-> ""]
    ELSE [success |-> FALSE, data |-> "", error |-> "Brand not found"]

\* get_latest_timestamp: the time of the last message, 0 for the "" of a
\* thread without messages
get_latest_timestamp(email) ==
    IF Len(email.thread) > 0 THEN email.thread[Len(email.thread)].timestamp ELSE 0

\* one step of sorted(..., reverse=True): x goes behind every element whose
\* key is not smaller, so equal keys keep their order
RECURSIVE InsertDescending(_, _, _)
InsertDescending(store, x, sorted) ==
    IF sorted = <<>> THEN <<x>>
    ELSE IF get_latest_timestamp(store[Head(sorted)]) >= get_latest_timestamp(store[x])
         THEN <<Head(sorted)>> \o InsertDescending(store, x, Tail(sorted))
         ELSE <<x>> \o sorted

\* sorted(emails, key=get_latest_timestamp, reverse=True), as thread ids
RECURSIVE sorted_emails(_, _)
sorted_emails(store, order) ==
    IF order = <<>> THEN <<>>
    ELSE InsertDescending(store, order[Len(order)],
                          sorted_emails(store, SubSeq(order, 1, Len(order) - 1)))

\* the Python slice seq[:limit]
SliceTo(seq, limit) ==
    IF limit >= 0
    THEN SubSeq(seq, 1, IF limit < Len(seq) THEN limit ELSE Len(seq))
    ELSE SubSeq(seq, 1, IF Len(seq) + limit > 0 THEN Len(seq) + limit ELSE 0)

\* the get_latest_emails tool
get_latest_emails(store, limit) ==
    LET limited_emails == SliceTo(sorted_emails(store, EmailOrder), limit)
        email_summaries ==
            [k \in 1..Len(limited_emails) |->
                [thread_id |-> limited_emails[k],
                 status |-> store[limited_emails[k]].status,
                 latest_message_time |->
                     get_latest_timestamp(store[limited_emails[k]])]]
    IN  [success |-> TRUE, data |-> email_summaries, error |-> "",
         total |-> Len(email_summaries)]

ThreadArgs == ThreadIds \cup {"t9"}

\* inbound times of the three threads, in the order of the list
Times(a, b, c) ==
    [t \in ThreadIds |-> CASE t = "t1" -> a [] t = "t2" -> b [] OTHER -> c]

\* the fixture files considered: equal times, oldest first, mixed
Fixtures == {Fixture(Times(1, 1, 1)), Fixture(Times(1, 2, 3)), Fixture(Times(2, 3, 1))}

Replies(store) ==
    UNION {{<<t, j>> : j \in {k \in 1..Len(store[t].thread) :
                                 store[t].thread[k].from = "brand"}} :
              t \in DOMAIN store}

\* what FastAPI answers for a raised HTTPException
HttpException(status_code, detail) ==
    [status |-> status_code, body |-> [detail |-> detail]]

\* what session.call_tool does in an endpoint: it returns the tool's result,
\* or raises an exception with this message
Sessions == {"ok", "Connection closed"}

\* GET /api/emails
list_emails(store, limit, session) ==
    IF session # "ok" THEN HttpException(500, session)
    ELSE [status |-> 200, body |-> get_latest_emails(store, limit)]

\* GET /api/emails/{thread_id}
get_email_thread_endpoint(store, thread_id, session) ==
    IF session # "ok" THEN HttpException(500, session)
    ELSE IF ~get_email_thread(store, thread_id).success
    THEN HttpException(404, get_email_thread(store, thread_id).error)
    ELSE [status |-> 200,
          body |-> [success |-> TRUE, data |-> get_email_thread(store, thread_id).data]]

\* the arguments of a request and what the session does in it
EndpointArgs(thread_id, limit, session) ==
    [thread_id |-> thread_id, limit |-> limit, session |-> session]

ToolInit ==
    /\ pc = "idle"
    /\ i = 0
    /\ messages = <<>>
    /\ assistant_msg = NoMessage
    /\ callIdx = 0
    /\ pricing_breakdown = None
    /\ response = NoResponse
    /\ llmCalls = 0
    /\ llmSeen = <<>>
    /\ toolLog = <<>>
    /\ budget = MaxIrregular
    /\ emails \in Fixtures
    /\ spc = [r \in 1..MaxRequests |-> IdleRequest]
    /\ sendLog = <<>>
    /\ lastCall = NoCall

CallGetEmailThread ==
    /\ \E thread_id \in ThreadArgs :
         lastCall' = Call("get_email_thread", thread_id, "", emails, FALSE,
                          get_email_thread(emails, thread_id))
    /\ UNCHANGED <<emails, spc, sendLog>>
    /\ UNCHANGED orchVars

CallGetLatestEmails ==
    /\ \E limit \in (0 - MaxLimit)..MaxLimit :
         lastCall' = Call("get_latest_emails", limit, "", emails, FALSE,
                          get_latest_emails(emails, limit))
    /\ UNCHANGED <<emails, spc, sendLog>>
    /\ UNCHANGED orchVars

CallSendReply ==
    /\ Cardinality(Replies(emails)) < MaxSends
    /\ \E thread_id \in ThreadArgs, content \in {"replyA", "replyB"} :
         /\ emails' = send_reply(emails, thread_id, content)
         /\ lastCall' = Call("send_reply", thread_id, content, emails, FALSE,
                             thread_tool_return(emails, thread_id))
    /\ UNCHANGED <<spc, sendLog>>
    /\ UNCHANGED orchVars

CallMarkAsProcessed ==
    /\ \E thread_id \in ThreadArgs :
         /\ emails' = mark_as_processed(emails, thread_id)
         /\ lastCall' = Call("mark_as_processed", thread_id, "", emails, FALSE,
                             thread_tool_return(emails, thread_id))
    /\ UNCHANGED <<spc, sendLog>>
    /\ UNCHANGED orchVars

CallGetBrandContext ==
    /\ \E brand_id \in BrandIds \cup {"nonexistent_brand"} :
         lastCall' = Call("get_brand_context", brand_id, "", emails, FALSE,
                          get_brand_context(brand_id))
    /\ UNCHANGED <<emails, spc, sendLog>>
    /\ UNCHANGED orchVars

\* a request arrives before any tool call or after a reply that failed
RequestListEmails ==
    /\ lastCall = NoCall \/ (lastCall.tool = "send_reply" /\ Replies(emails) = {})
    /\ \E limit \in {2, 20}, session \in Sessions :
         lastCall' = Call("GET /api/emails", EndpointArgs("", limit, session), "",
                          emails, FALSE, list_emails(emails, limit, session))
    /\ UNCHANGED <<emails, spc, sendLog>>
    /\ UNCHANGED orchVars

RequestGetEmailThread ==
    /\ lastCall = NoCall \/ (lastCall.tool = "send_reply" /\ Replies(emails) = {})
    /\ \E thread_id \in ThreadArgs, session \in Sessions :
         lastCall' = Call("GET /api/emails/{thread_id}",
                          EndpointArgs(thread_id, 0, session), "", emails, FALSE,
                          get_email_thread_endpoint(emails, thread_id, session))
    /\ UNCHANGED <<emails, spc, sendLog>>
    /\ UNCHANGED orchVars

ToolNext ==
    \/ CallGetEmailThread
    \/ CallGetLatestEmails
    \/ CallSendReply
    \/ CallMarkAsProcessed
    \/ CallGetBrandContext
    \/ RequestListEmails
    \/ RequestGetEmailThread

ToolSpec == ToolInit /\ [][ToolNext]_vars

-----------------------------------------------------------------------------
\* s is t with messages added at its end, none removed or changed
IsPrefix(t, s) == Len(t) <= Len(s) /\ SubSeq(s, 1, Len(t)) = t

\* the call the server handled last was a successful call of this tool
Succeeded(tool) ==
    /\ lastCall.tool = tool
    /\ ~lastCall.raised
    /\ lastCall.result.success

\* C11: a thread's message sequence is append-only: a successful send_reply
\* appends exactly one message, with the given content as body, at the end
\* of the target thread, and leaves the thread's earlier messages, its
\* status and every other thread as they were; no tool call removes or
\* rewrites a message of any thread.
C11_SendReplyAppendOnly ==
    lastCall.tool # "" =>
        /\ DOMAIN emails = DOMAIN lastCall.before
        /\ \A t \in DOMAIN emails :
              IsPrefix(lastCall.before[t].thread, emails[t].thread)
        /\ Succeeded("send_reply") =>
              LET t == lastCall.arg
                  n == Len(lastCall.before[t].thread)
              IN  /\ Len(emails[t].thread) = n + 1
                  /\ emails[t].thread[n + 1].body = lastCall.content
                  /\ emails[t].status = lastCall.before[t].status
                  /\ \A u \in DOMAIN emails \ {t} : emails[u] = lastCall.before[u]

C11_Witness ==
    /\ Succeeded("send_reply")
    /\ lastCall.content = "replyB"
    /\ Len(lastCall.before[lastCall.arg].thread) = 2
    /\ lastCall.before[lastCall.arg].status = "processed"
    /\ \E u \in ThreadIds \ {lastCall.arg} : emails[u].status = "processed"

\* C12: mark_as_processed on an existing thread sets its status to processed
\* and leaves its message sequence unchanged; a thread that was processed
\* before a tool call, whichever the tool, is processed after it, so no
\* sequence of calls returns it to open.
C12_ProcessedIsFinal ==
    lastCall.tool # "" =>
        /\ \A t \in DOMAIN lastCall.before :
              lastCall.before[t].status = "processed" => emails[t].status = "processed"
        /\ Succeeded("mark_as_processed") =>
              /\ emails[lastCall.arg].status = "processed"
              /\ emails[lastCall.arg].thread = lastCall.before[lastCall.arg].thread

C12_Witness ==
    /\ Succeeded("mark_as_processed")
    /\ lastCall.before[lastCall.arg].status = "processed"
    /\ Len(emails[lastCall.arg].thread) = 2
    /\ \E u \in ThreadIds : emails[u].status = "open"

\* the call the server handled last named a thread or a brand it does not hold
UnknownId ==
    \/ /\ lastCall.tool \in {"get_email_thread", "send_reply", "mark_as_processed"}
       /\ lastCall.arg \notin DOMAIN lastCall.before
    \/ /\ lastCall.tool = "get_brand_context"
       /\ lastCall.arg \notin BrandIds

\* C13: get_email_thread, send_reply and mark_as_processed called with a
\* thread id that is not in the store, and get_brand_context called with an
\* unknown brand id, return success false with an error string, raise no
\* exception, and leave every thread's messages and status as they were.
C13_UnknownIdIsReported ==
    UnknownId =>
        /\ ~lastCall.raised
        /\ lastCall.result.success = FALSE
        /\ lastCall.result.error # ""
        /\ emails = lastCall.before

C13_Witness ==
    /\ UnknownId
    /\ lastCall.tool = "mark_as_processed"
    /\ \E t \in ThreadIds : emails[t].status = "open" /\ Len(emails[t].thread) = 2
    /\ \E t \in ThreadIds : emails[t].status = "processed"

\* the latest-message time of thread t in the store the last call found
LatestTime(t) == get_latest_timestamp(lastCall.before[t])

\* C14: for any limit, get_latest_emails(limit) returns at most `limit`
\* summaries; they are the threads with the most recent latest-message
\* times, listed in descending order of that time, and the reported total
\* equals the number of summaries returned.
C14_LatestEmailsLimited ==
    lastCall.tool = "get_latest_emails" =>
        LET data == lastCall.result.data
            listed == {data[k].thread_id : k \in 1..Len(data)}
        IN  /\ Len(data) <= lastCall.arg
            /\ Cardinality(listed) = Len(data)
            /\ listed \subseteq DOMAIN lastCall.before
            /\ \A k \in 1..Len(data) :
                  data[k].latest_message_time = LatestTime(data[k].thread_id)
            /\ \A k \in 1..(Len(data) - 1) :
                  data[k].latest_message_time >= data[k + 1].latest_message_time
            /\ \A t \in listed, u \in DOMAIN lastCall.before \ listed :
                  LatestTime(t) >= LatestTime(u)
            /\ lastCall.result.total = Len(data)

-----------------------------------------------------------------------------
(* Channel references.  A reference is the sequence of its pieces: "@" and *)
(* "/" are single characters, every other piece is a run of characters     *)
(* holding neither of the two.                                             *)

\* str.lower() on one piece
LowerPiece(x) ==
    CASE x = "TechReviewAlex" -> "techreviewalex"
      [] x = "TECHREVIEWALEX" -> "techreviewalex"
      [] x = "NewChannel" -> "newchannel"
      [] x = "HomeCook" -> "homecook"
      [] x = "RetroGamer" -> "retrogamer"
      [] x = "DayTrips" -> "daytrips"
      [] x = "BoughtSubs" -> "boughtsubs"
      [] x = "PodRing" -> "podring"
      [] x = "NonexistentChannel12345" -> "nonexistentchannel12345"
      [] x = "UCtech_alex" -> "uctech_alex"
      [] OTHER -> x

LowerUrl(url) == [n \in 1..Len(url) |-> LowerPiece(url[n])]

\* the pieces of seq before the first occurrence of sep
RECURSIVE UpTo(_, _)
UpTo(seq, sep) ==
    IF seq = <<>> \/ Head(seq) = sep THEN <<>>
    ELSE <<Head(seq)>> \o UpTo(Tail(seq), sep)

\* the pieces of seq behind the first occurrence of sep
RECURSIVE Behind(_, _)
Behind(seq, sep) ==
    IF seq = <<>> THEN <<>>
    ELSE IF Head(seq) = sep THEN Tail(seq) ELSE Behind(Tail(seq), sep)

\* extract_channel_id_from_url: "@" + url.split("@")[1].split("/")[0]
extract_channel_id_from_url(url) ==
    IF \E n \in 1..Len(url) : url[n] = "@"
    THEN <<"@">> \o UpTo(UpTo(Behind(url, "@"), "@"), "/")
    ELSE url

Base == <<"https:", "/", "/", "www.youtube.com", "/">>

\* one record of youtube_profiles.json; rates in thousandths
Profile(url, handle, name, description, category, subs, views, rate, score) ==
    [channel_url |-> url, handle |-> handle, channel_name |-> name,
     description |-> description, category |-> category, subscribers |-> subs,
     avg_views |-> views, engagement_rate |-> rate, consistency_score |-> score]

\* the statistics a profile may carry besides: a key it lacks is None
Statistics(total_views, video_count, recent_video_performance) ==
    [total_views |-> total_views, video_count |-> video_count,
     recent_video_performance |-> recent_video_performance]

\* mcp_server.youtube_profiles, loaded from the fixtures
youtube_profiles ==
    << Profile(Base \o <<"@", "TechReviewAlex">>, <<"@", "TechReviewAlex">>,
               "Tech Reviews", "Daily vlogs", "tech", 50000, 5000, 100, "medium")
         @@ Statistics(Some(600000), Some(150), Some(<<5000, 5200, 4800>>)),
       Profile(Base \o <<"@", "HomeCook">>, <<"@", "HomeCook">>,
               "Cooking", "Home recipes", "food", 250000, 45000, 200, "high")
         @@ Statistics(Some(40000), Some(4), None),
       Profile(Base \o <<"@", "NewChannel">>, <<>>,
               "Lifestyle", "", "", 0, 0, 8, "low")
         @@ Statistics(None, None, None),
       Profile(Base \o <<"@", "RetroGamer">>, <<"@", "RetroGamer">>,
               "Gaming Channel", "Let's plays and gaming", "game",
               5000, 3000, 30, "low")
         @@ Statistics(None, Some(10), Some(<<100, 100, 3000>>)),
       Profile(Base \o <<"@", "DayTrips">>, <<"@", "DayTrips">>,
               "Lifestyle", "vlogs", "", 50000, 5000, 100, "medium")
         @@ Statistics(Some(0), Some(40), Some(<<0, 0, 0>>)),
       Profile(Base \o <<"@", "BoughtSubs">>, <<"@", "BoughtSubs">>,
               "Lifestyle", "vlogs", "", 2000000, 10000, 4, "low")
         @@ Statistics(Some(1000), Some(10), Some(<<100, 100, 3000>>)),
       Profile(Base \o <<"@", "PodRing">>, <<"@", "PodRing">>,
               "Cooking", "Home recipes", "food", 20000, 600, 600, "high")
         @@ Statistics(Some(400000), Some(100), Some(<<4000, 4100>>)) >>

\* find_youtube_profile_by_url: None, or the first profile that matches by
\* exact URL, by handle, or by the handle of its stored URL
RECURSIVE find_in_profiles(_, _)
find_in_profiles(profiles, url) ==
    IF profiles = <<>> THEN None
    ELSE LET profile == Head(profiles)
             input_handle ==
                 IF url # <<>> THEN LowerUrl(extract_channel_id_from_url(url)) ELSE <<>>
             profile_handle == LowerUrl(profile.handle)
             profile_url_handle ==
                 IF profile.channel_url # <<>>
                 THEN LowerUrl(extract_channel_id_from_url(profile.channel_url))
                 ELSE <<>>
         IN  IF \/ profile.channel_url = url
                \/ input_handle # <<>> /\ profile_handle # <<>>
                      /\ input_handle = profile_handle
                \/ input_handle # <<>> /\ profile_url_handle # <<>>
                      /\ input_handle = profile_url_handle
             THEN Some(profile)
             ELSE find_in_profiles(Tail(profiles), url)

find_youtube_profile_by_url(url) == find_in_profiles(youtube_profiles, url)

\* the references a caller passes
ChannelRefs ==
    { Base \o <<"@", "TechReviewAlex">>,
      Base \o <<"@", "TECHREVIEWALEX", "/", "videos">>,
      <<"@", "HomeCook">>,
      <<"@", "RetroGamer">>,
      <<"@", "DayTrips">>,
      <<"@", "BoughtSubs">>,
      <<"@", "PodRing">>,
      Base \o <<"@", "NewChannel">>,
      Base \o <<"@", "NonexistentChannel12345">>,
      <<"UCtech_alex">>,
      <<>> }

\* What the YouTube Data API does during one call of fetch_channel_data:
\* search().list().execute() and channels().list().execute() each raise
\* HttpError, raise another exception, answer no items, or answer a channel;
\* a channel item may lack the statistics the code reads
ApiSubscriberCounts == {0, 250000}

ApiBehaviours ==
    [search : {"HttpError", "Exception", "empty", "found"},
     channels : {"HttpError", "Exception", "empty", "malformed", "found"},
     subscriberCount : ApiSubscriberCounts,
     videoCount : {0, 4}, viewCount : {1000000}]

\* the "data" of a result: a key a source does not carry is None
ApiData(api, local_profile) ==
    [subscriber_count |-> Some(api.subscriberCount), subscribers |-> None,
     avg_views |-> None, consistency_score |-> None,
     engagement_rate |->
         IF local_profile # None THEN local_profile[1].engagement_rate ELSE 50,
     title |-> Some("Tech Reviews"), channel_name |-> None,
     description |-> "Daily vlogs", category |-> None,
     video_count |-> Some(api.videoCount), view_count |-> Some(api.viewCount),
     total_views |-> None, recent_video_performance |-> None]

LocalData(profile) ==
    [subscriber_count |-> None, subscribers |-> Some(profile.subscribers),
     avg_views |-> Some(profile.avg_views),
     consistency_score |-> Some(profile.consistency_score),
     engagement_rate |-> profile.engagement_rate,
     title |-> None, channel_name |-> Some(profile.channel_name),
     description |-> profile.description, category |-> Some(profile.category),
     video_count |-> profile.video_count, view_count |-> None,
     total_views |-> profile.total_views,
     recent_video_performance |-> profile.recent_video_performance]

NoData == <<>>

\* the live lookup of fetch_channel_data: Some(data) when it returns inside
\* the try, None when it is skipped, raises (and is caught) or finds no item
LiveLookup(channel_url, key, api, local_profile) ==
    LET handle_or_id == extract_channel_id_from_url(channel_url)
        startswith_at == handle_or_id # <<>> /\ Head(handle_or_id) = "@"
    IN  IF ~key THEN None
        ELSE IF startswith_at /\ api.search # "found" THEN None
        ELSE IF api.channels = "found" THEN Some(ApiData(api, local_profile))
        ELSE None

\* the element of a one-element set
The(S) == CHOOSE x \in S : TRUE

\* the local store left unread when the live lookup gives nothing
FetchResult_NoFallback(live, local_profile) ==
    IF live # None
    THEN [success |-> TRUE, source |-> "api", data |-> live[1], error |-> ""]
    ELSE [success |-> FALSE, source |-> "", data |-> NoData,
          error |-> "Channel not found in API or local database"]

\* what fetch_channel_data returns: the live data, else the local profile,
\* else the failure
FetchResult(live, local_profile) ==
    IF live # None
    THEN [success |-> TRUE, source |-> "api", data |-> live[1], error |-> ""]
    ELSE IF local_profile # None
    THEN [success |-> TRUE, source |-> "local_fallback",
          data |-> LocalData(local_profile[1]), error |-> ""]
    ELSE [success |-> FALSE, source |-> "", data |-> NoData,
          error |-> "Channel not found in API or local database"]

\* the fetch_channel_data tool
fetch_channel_data(channel_url, key, api) ==
    The({FetchResult(LiveLookup(channel_url, key, api, local_profile), local_profile) :
            local_profile \in {find_youtube_profile_by_url(channel_url)}})

-----------------------------------------------------------------------------
(* The pricing engine.  Money is counted in cents, a multiplier in tenths, *)
(* an engagement rate in thousandths, a view count in tenths of a view.    *)

\* subscriber counts tried around each tier boundary: the boundary +- MaxDelta
MaxDelta == 6

\* Python `a or b` on an optional number: b when a is absent or 0
OrElse(a, b) == IF a # None /\ a[1] # 0 THEN a[1] ELSE b

\* dict.get(key, default) on an optional value
GetOr(a, default) == IF a # None THEN a[1] ELSE default

RECURSIVE GCD(_, _)
GCD(a, b) == IF b = 0 THEN a ELSE GCD(b, a % b)

\* round(n / d) for d > 0, a tie going to the even neighbour
RoundHalfEven(n, d) ==
    LET q == n \div d
        r == n % d
    IN  IF 2 * r < d THEN q
        ELSE IF 2 * r > d THEN q + 1
        ELSE IF q % 2 = 0 THEN q ELSE q + 1

\* the tier boundaries taken inclusively
get_base_cpm_Inclusive(subscribers) ==
    IF subscribers <= 10000 THEN 1250
    ELSE IF subscribers <= 100000 THEN 2000
    ELSE IF subscribers <= 1000000 THEN 3250
    ELSE 7000

get_base_cpm(subscribers) ==
    IF subscribers < 10000 THEN 1250
    ELSE IF subscribers < 100000 THEN 2000
    ELSE IF subscribers < 1000000 THEN 3250
    ELSE 7000

get_engagement_multiplier(rate) ==
    IF rate < 50 THEN 7
    ELSE IF rate < 150 THEN 10
    ELSE IF rate < 300 THEN 13
    ELSE 15

\* the finance keywords looked for before the tech keywords
get_niche_multiplier_FinanceFirst(channel_title, description) ==
    LET content == Lower(channel_title \o <<" ">> \o description)
    IN  IF Contains(content, Chars("finance")) \/ Contains(content, Chars("money"))
        THEN 14
        ELSE IF Contains(content, Chars("tech")) \/ Contains(content, Chars("ai")) THEN 12
        ELSE IF Contains(content, Chars("game")) \/ Contains(content, Chars("gaming"))
        THEN 9
        ELSE 10

\* both arguments are character sequences
get_niche_multiplier(channel_title, description) ==
    LET content == Lower(channel_title \o <<" ">> \o description)
    IN  IF Contains(content, Chars("tech")) \/ Contains(content, Chars("ai")) THEN 12
        ELSE IF Contains(content, Chars("finance")) \/ Contains(content, Chars("money"))
        THEN 14
        ELSE IF Contains(content, Chars("game")) \/ Contains(content, Chars("gaming"))
        THEN 9
        ELSE 10

get_consistency_multiplier(score) ==
    CASE score = "high" -> 11
      [] score = "medium" -> 10
      [] score = "low" -> 9
      [] OTHER -> 10

\* the price taken from the CPM already rounded to cents
EstimatedPrice_FromRoundedCpm(views10, product) ==
    RoundHalfEven(views10 * RoundHalfEven(product, 1000), 10000)

\* round((avg_views / 1000) * final_cpm, 2) in cents, from the views in
\* tenths and the product of base CPM and the three multipliers
EstimatedPrice(views10, product) ==
    LET g1 == GCD(views10, 10000000)
        v  == views10 \div g1
        d1 == 10000000 \div g1
        g2 == GCD(product, d1)
    IN  RoundHalfEven(v * (product \div g2), d1 \div g2)

\* calculate_offer_price from the channel data on
Quote(channel_res) ==
    LET data == channel_res.data
        subs == OrElse(data.subscriber_count, GetOr(data.subscribers, 0))
        avg_views10 == IF data.avg_views # None /\ data.avg_views[1] # 0
                       THEN 10 * data.avg_views[1] ELSE subs
        eng_rate == data.engagement_rate
        consistency == IF data.consistency_score # None
                       THEN data.consistency_score[1] ELSE "medium"
        base_cpm == get_base_cpm(subs)
        eng_mult == get_engagement_multiplier(eng_rate)
        niche_mult ==
            get_niche_multiplier(
                Chars(IF data.title # None THEN data.title[1]
                      ELSE GetOr(data.channel_name, "")),
                Chars(data.description) \o <<" ">> \o Chars(GetOr(data.category, "")))
        cons_mult == get_consistency_multiplier(consistency)
        product == base_cpm * eng_mult * niche_mult * cons_mult
        estimated_price == EstimatedPrice(avg_views10, product)
    IN  IF ~channel_res.success
        THEN [success |-> FALSE, error |-> "Could not fetch channel data"]
        ELSE [success |-> TRUE, error |-> "",
              subscribers |-> subs, avg_views10 |-> avg_views10,
              base_cpm |-> base_cpm, engagement |-> eng_mult,
              niche |-> niche_mult, consistency |-> cons_mult,
              final_cpm |-> RoundHalfEven(product, 1000),
              estimated_total_price |-> estimated_price,
              negotiation_cap10 |-> estimated_price * 12]

\* the calculate_offer_price tool (campaign_type and brand_id are not read)
calculate_offer_price(channel_url, key, api) ==
    The({Quote(channel_res) :
            channel_res \in {fetch_channel_data(channel_url, key, api)}})

-----------------------------------------------------------------------------
(* The negotiation validator *)

\* what a call of validate_counter_offer hands back
Assessment(fair_price, counter_price, difference10, recommendation) ==
    [raised |-> FALSE, success |-> TRUE, error |-> "",
     fair_market_value |-> fair_price, counter_offer |-> counter_price,
     difference_percentage10 |-> difference10, recommendation |-> recommendation]

Raises(exception) == [raised |-> TRUE, success |-> FALSE, error |-> exception]

\* a quote above $500 held to thresholds half as wide
Recommend_BySize(num, den) ==
    IF den > 50000
    THEN IF num <= 5 * den THEN "accept"
         ELSE IF num <= 12 * den THEN "negotiate" ELSE "decline"
    ELSE IF num <= 10 * den THEN "accept"
         ELSE IF num <= 25 * den THEN "negotiate" ELSE "decline"

\* the two thresholds taken exclusively
Recommend_Strict(num, den) ==
    IF num < 10 * den THEN "accept"
    ELSE IF num < 25 * den THEN "negotiate"
    ELSE "decline"

\* the if/elif chain on diff_percent = num / den percent, den > 0
Recommend(num, den) ==
    IF num <= 10 * den THEN "accept"
    ELSE IF num <= 25 * den THEN "negotiate"
    ELSE "decline"

\* the counter itself taken as fair price when the engine fails
FairPrice_Counter(calc_res, original_price, counter_price) ==
    IF ~calc_res.success THEN counter_price ELSE calc_res.estimated_total_price

\* the fair price of validate_counter_offer
FairPrice(calc_res, original_price, counter_price) ==
    IF ~calc_res.success THEN original_price ELSE calc_res.estimated_total_price

\* validate_counter_offer from the fair price on; diff_percent is kept as
\* the fraction num / den, the reported difference in tenths of a percent
Assess(fair_price, counter_price) ==
    LET num == IF fair_price > 0 THEN 100 * (counter_price - fair_price)
               ELSE 100 * (fair_price - counter_price)
        den == IF fair_price > 0 THEN fair_price ELSE 0 - fair_price
    IN  IF fair_price = 0 THEN Raises("ZeroDivisionError")
        ELSE Assessment(fair_price, counter_price,
                        RoundHalfEven(10 * num, den), Recommend(num, den))

\* the validate_counter_offer tool
validate_counter_offer(channel_url, original_price, counter_price, key, api) ==
    The({Assess(fair_price, counter_price) :
            fair_price \in {FairPrice(calc_res, original_price, counter_price) :
                               calc_res \in {calculate_offer_price(channel_url, key, api)}}})

-----------------------------------------------------------------------------
(* The ROI forecaster *)

\* click-through benchmarks per niche, in thousandths
conversion_rates(category) ==
    CASE category = "tech" -> 25
      [] category = "finance" -> 30
      [] category = "business" -> 22
      [] category = "lifestyle" -> 15
      [] category = "gaming" -> 10
      [] OTHER -> 18

\* average order values per niche, in dollars
aov_by_niche(category) ==
    CASE category = "tech" -> 85
      [] category = "finance" -> 120
      [] category = "business" -> 150
      [] category = "lifestyle" -> 45
      [] category = "gaming" -> 35
      [] OTHER -> 60

\* max(0.5, min(2.0, 1 + (eng_rate - 0.05) * 5)) in two-hundredths, from the
\* rate in thousandths
EngagementBoost(eng_rate) ==
    LET engagement_boost == 150 + eng_rate
    IN  IF engagement_boost < 100 THEN 100
        ELSE IF engagement_boost > 400 THEN 400 ELSE engagement_boost

\* int(x) of a quotient: towards zero
Trunc(n, d) == IF n >= 0 THEN n \div d ELSE 0 - ((0 - n) \div d)

\* the thresholds passed only when exceeded
RoiRecommendation_Strict(roas) ==
    IF roas > 300 THEN "strongly_recommend"
    ELSE IF roas > 200 THEN "recommend"
    ELSE IF roas > 100 THEN "proceed_with_caution"
    ELSE "reconsider"

\* round(estimated_revenue / offer_price, 2) in hundredths, 0 for an offer
\* that is not positive; the revenue in dollars, the offer in cents
Roas(estimated_revenue, offer_price) ==
    IF offer_price > 0 THEN RoundHalfEven(estimated_revenue * 10000, offer_price) ELSE 0

\* the recommendation of a ROAS in hundredths
RoiRecommendation(roas) ==
    IF roas >= 300 THEN "strongly_recommend"
    ELSE IF roas >= 200 THEN "recommend"
    ELSE IF roas >= 100 THEN "proceed_with_caution"
    ELSE "reconsider"

\* forecast_campaign_roi from the channel data on
Forecast(channel_res, offer_price) ==
    LET data == channel_res.data
        avg_views == OrElse(data.avg_views, 10000)
        eng_rate == data.engagement_rate
        category == GetOr(data.category, "general")
        base_ctr == conversion_rates(category)
        aov == aov_by_niche(category)
        boost == EngagementBoost(eng_rate)
        estimated_clicks == (avg_views * base_ctr * boost) \div 200000
        estimated_conversions == (estimated_clicks * 3) \div 100
        estimated_revenue == estimated_conversions * aov
        roas == Roas(estimated_revenue, offer_price)
        confidence == 70 + (IF eng_rate > 150 THEN 10 ELSE 0)
                         + (IF data.consistency_score = Some("high") THEN 10 ELSE 0)
                         + (IF avg_views > 50000 THEN 10 ELSE 0)
    IN  IF ~channel_res.success
        THEN [success |-> FALSE, error |-> "Could not fetch channel data"]
        ELSE [success |-> TRUE, error |-> "",
              estimated_views |-> avg_views,
              estimated_clicks |-> estimated_clicks,
              estimated_conversions |-> estimated_conversions,
              estimated_revenue |-> estimated_revenue,
              roas |-> roas,
              break_even_conversions |-> Trunc(offer_price, 100 * aov) + 1,
              recommendation |-> RoiRecommendation(roas),
              confidence_score |-> IF confidence > 95 THEN 95 ELSE confidence,
              click_through_rate |-> RoundHalfEven(base_ctr * boost, 20),
              average_order_value |-> aov, niche |-> category]

\* the forecast_campaign_roi tool (brand_id is not read)
forecast_campaign_roi(channel_url, offer_price, key, api) ==
    The({Forecast(channel_res, offer_price) :
            channel_res \in {fetch_channel_data(channel_url, key, api)}})

-----------------------------------------------------------------------------
(* The authenticity scorer *)

\* an entry of red_flags (the detail text is left out) and what it costs
RedFlag(flag, severity, penalty) ==
    [flag |-> flag, severity |-> severity, penalty |-> penalty]

RECURSIVE SumOf(_)
SumOf(numbers) == IF numbers = <<>> THEN 0 ELSE Head(numbers) + SumOf(Tail(numbers))

\* check 1: the average views as a percentage of the subscribers, below 2
\* and below 5
ViewRatioCheck(avg_views, subs) ==
    IF subs <= 0 \/ 100 * avg_views < 2 * subs
    THEN <<RedFlag("Very low view-to-subscriber ratio", "high", 25)>>
    ELSE IF 100 * avg_views < 5 * subs
    THEN <<RedFlag("Below average view-to-subscriber ratio", "medium", 10)>>
    ELSE <<>>

\* check 2: the engagement rate in thousandths
EngagementCheck(eng_rate, subs) ==
    IF eng_rate > 500
    THEN <<RedFlag("Unusually high engagement rate", "medium", 15)>>
    ELSE IF eng_rate < 10 /\ subs > 10000
    THEN <<RedFlag("Extremely low engagement", "high", 20)>>
    ELSE <<>>

\* coefficient_of_variation > 0.5: with n samples of sum S the standard
\* deviation over the mean exceeds 1/2 when 4 * sum((n*x - S)^2) > n * S^2
VariesWidely(recent_performance) ==
    LET n == Len(recent_performance)
        S == SumOf(recent_performance)
        squares == [k \in 1..n |-> (n * recent_performance[k] - S)
                                      * (n * recent_performance[k] - S)]
    IN  S > 0 /\ 4 * SumOf(squares) > n * S * S

\* check 3
ConsistencyCheck(recent_performance) ==
    IF Len(recent_performance) >= 3 /\ VariesWidely(recent_performance)
    THEN <<RedFlag("Inconsistent video performance", "low", 5)>>
    ELSE <<>>

\* check 4
ContentCheck(subs, video_count) ==
    IF video_count > 0 /\ subs > 50000 * video_count /\ video_count < 20
    THEN <<RedFlag("Unusual subscriber-to-content ratio", "medium", 10)>>
    ELSE <<>>

\* the total views compared although none are reported
TotalViewsCheck_Unguarded(total_views, avg_views, video_count) ==
    IF 100 * total_views < 24 * avg_views * video_count
    THEN <<RedFlag("Total views don't match average", "medium", 15)>>
    ELSE <<>>

\* check 5: total_views < (avg_views * video_count * 0.8) * 0.3
TotalViewsCheck(total_views, avg_views, video_count) ==
    IF total_views > 0 /\ 100 * total_views < 24 * avg_views * video_count
    THEN <<RedFlag("Total views don't match average", "medium", 15)>>
    ELSE <<>>

\* the score that keeps the first deduction only
AuthenticityScore_FirstOnly(red_flags) ==
    IF red_flags = <<>> THEN 100 ELSE 100 - red_flags[1].penalty

\* 100 less every deduction, kept within 0 and 100
AuthenticityScore(red_flags) ==
    LET authenticity_score ==
            100 - SumOf([k \in 1..Len(red_flags) |-> red_flags[k].penalty])
    IN  IF authenticity_score < 0 THEN 0
        ELSE IF authenticity_score > 100 THEN 100 ELSE authenticity_score

AuthenticityRecommendation(authenticity_score) ==
    IF authenticity_score >= 85 THEN "safe_to_proceed"
    ELSE IF authenticity_score >= 70 THEN "proceed_with_monitoring"
    ELSE IF authenticity_score >= 50 THEN "investigate_further"
    ELSE "avoid"

\* detect_fake_engagement from the channel data on
Analysis(channel_res) ==
    LET data == channel_res.data
        subs == OrElse(data.subscriber_count, GetOr(data.subscribers, 0))
        avg_views == OrElse(data.avg_views, 0)
        eng_rate == data.engagement_rate
        total_views == OrElse(data.total_views, GetOr(data.view_count, 0))
        video_count == GetOr(data.video_count, 1)
        recent_performance == GetOr(data.recent_video_performance, <<>>)
        red_flags == ViewRatioCheck(avg_views, subs)
                        \o EngagementCheck(eng_rate, subs)
                        \o ConsistencyCheck(recent_performance)
                        \o ContentCheck(subs, video_count)
                        \o TotalViewsCheck(total_views, avg_views, video_count)
        authenticity_score == AuthenticityScore(red_flags)
    IN  IF ~channel_res.success
        THEN [success |-> FALSE, error |-> "Could not fetch channel data"]
        ELSE [success |-> TRUE, error |-> "",
              authenticity_score |-> authenticity_score,
              recommendation |-> AuthenticityRecommendation(authenticity_score),
              red_flags |-> red_flags,
              view_to_subscriber_ratio |->
                  IF subs > 0 THEN RoundHalfEven(1000 * avg_views, subs) ELSE 0,
              engagement_rate |-> 10 * eng_rate,
              subscribers |-> subs, avg_views |-> avg_views,
              video_count |-> video_count, total_views |-> total_views]

\* the detect_fake_engagement tool
detect_fake_engagement(channel_url, key, api) ==
    The({Analysis(channel_res) :
            channel_res \in {fetch_channel_data(channel_url, key, api)}})

-----------------------------------------------------------------------------
(* The channel and pricing functions called with every input of the model *)

\* what the API does in the calls of the pricing tools
ApiCases ==
    { [search |-> "found", channels |-> "found", subscriberCount |-> 250000,
       videoCount |-> 4, viewCount |-> 1000000],
      [search |-> "HttpError", channels |-> "found", subscriberCount |-> 0,
       videoCount |-> 0, viewCount |-> 1000000] }

\* an environment: is YOUTUBE_API_KEY set, and what the API does
Environments == {<<FALSE, CHOOSE api \in ApiCases : TRUE>>} \cup ({TRUE} \X ApiCases)

PricedRefs ==
    { Base \o <<"@", "TechReviewAlex">>, Base \o <<"@", "NonexistentChannel12345">> }

\* the prices the engine quotes for the references of the model
FairValues ==
    { calculate_offer_price(u, env[1], env[2]).estimated_total_price :
        u \in {v \in PricedRefs : find_youtube_profile_by_url(v) # None},
        env \in Environments }

\* original prices in cents: none, $1000
OriginalPrices == {0, 100000}

\* a counter is a fair value or an original price marked up (1000 is 100%),
\* to the cent or a few cents above
Markups == {1050, 1100, 1200, 1250, 1600}

ExactCounterPrices ==
    {(f * k) \div 1000 : f \in FairValues \cup OriginalPrices, k \in Markups}

CounterPrices == {c + d : c \in ExactCounterPrices, d \in {0, 4}}

Breakpoints == {10000, 100000, 1000000}

SubscriberCounts ==
    {0, 5000, 50000, 300000, 2000000}
        \cup {b + d : b \in Breakpoints, d \in (0 - MaxDelta)..MaxDelta}

\* the arguments of a call
FetchArgs(channel_url, key, api) == [channel_url |-> channel_url, key |-> key, api |-> api]

ValidateArgs(channel_url, original_price, counter_price, key, api) ==
    [channel_url |-> channel_url, original_price |-> original_price,
     counter_price |-> counter_price, key |-> key, api |-> api]

NoAssessment == [raised |-> FALSE, success |-> FALSE, error |-> ""]

CallFetchChannelData ==
    /\ lastCall = NoCall
    /\ \E channel_url \in ChannelRefs, key \in BOOLEAN, api \in ApiBehaviours :
         lastCall' = Call("fetch_channel_data", FetchArgs(channel_url, key, api), "",
                          NoAssessment, FALSE, fetch_channel_data(channel_url, key, api))
    /\ UNCHANGED <<emails, spc, sendLog>>
    /\ UNCHANGED orchVars

CallCalculateOfferPrice ==
    /\ lastCall = NoCall
    /\ \E channel_url \in ChannelRefs, env \in Environments :
         lastCall' = Call("calculate_offer_price",
                          FetchArgs(channel_url, env[1], env[2]), "", NoAssessment,
                          FALSE, calculate_offer_price(channel_url, env[1], env[2]))
    /\ UNCHANGED <<emails, spc, sendLog>>
    /\ UNCHANGED orchVars

CallValidateCounterOffer ==
    /\ lastCall = NoCall
    /\ \E channel_url \in PricedRefs, env \in Environments,
          original_price \in OriginalPrices, counter_price \in CounterPrices :
         LET out == validate_counter_offer(channel_url, original_price,
                                           counter_price, env[1], env[2])
         IN  lastCall' = Call("validate_counter_offer",
                              ValidateArgs(channel_url, original_price,
                                           counter_price, env[1], env[2]), "",
                              NoAssessment, out.raised, out)
    /\ UNCHANGED <<emails, spc, sendLog>>
    /\ UNCHANGED orchVars

\* a second assessment in the same environment and against the same original
\* offer; `before` keeps the result of the first
CallValidateCounterOfferAgain ==
    /\ lastCall.tool = "validate_counter_offer"
    /\ lastCall.before = NoAssessment
    /\ \E channel_url \in PricedRefs, counter_price \in ExactCounterPrices :
         LET out == validate_counter_offer(channel_url, lastCall.arg.original_price,
                                           counter_price, lastCall.arg.key,
                                           lastCall.arg.api)
         IN  lastCall' = Call("validate_counter_offer",
                              ValidateArgs(channel_url, lastCall.arg.original_price,
                                           counter_price, lastCall.arg.key,
                                           lastCall.arg.api), "",
                              lastCall.result, out.raised, out)
    /\ UNCHANGED <<emails, spc, sendLog>>
    /\ UNCHANGED orchVars

CallGetBaseCpm ==
    /\ lastCall = NoCall
    /\ \E subscribers \in SubscriberCounts :
         lastCall' = Call("get_base_cpm", subscribers, "", NoAssessment, FALSE,
                          get_base_cpm(subscribers))
    /\ UNCHANGED <<emails, spc, sendLog>>
    /\ UNCHANGED orchVars

\* the titles and descriptions get_niche_multiplier is called with
ChannelTitles == {"Tech Reviews", "Finance Tips", "Gaming Channel", "Lifestyle", "Cooking"}

Descriptions ==
    {"AI and technology", "Personal finance and money", "Let's plays and gaming",
     "Daily vlogs", "vlogs", "Home recipes", ""}

NicheArgs(channel_title, description) ==
    [channel_title |-> channel_title, description |-> description]

CallGetNicheMultiplier ==
    /\ lastCall = NoCall
    /\ \E channel_title \in ChannelTitles, description \in Descriptions :
         lastCall' = Call("get_niche_multiplier", NicheArgs(channel_title, description),
                          "", NoAssessment, FALSE,
                          get_niche_multiplier(Chars(channel_title), Chars(description)))
    /\ UNCHANGED <<emails, spc, sendLog>>
    /\ UNCHANGED orchVars

\* the revenues the forecaster estimates for the references of the model
ForecastRevenues ==
    { forecast_campaign_roi(u, 0, env[1], env[2]).estimated_revenue :
        u \in {v \in ChannelRefs : find_youtube_profile_by_url(v) # None},
        env \in Environments }

\* offers in cents: none, a negative one, and those at which a revenue is
\* once, twice and three times the offer, with the cents around them
OfferPrices ==
    {0, 0 - 100}
        \cup {(100 * revenue) \div k + d :
                 revenue \in ForecastRevenues, k \in 1..3,
                 d \in (0 - MaxDelta)..MaxDelta}

ForecastArgs(channel_url, offer_price, key, api) ==
    [channel_url |-> channel_url, offer_price |-> offer_price, key |-> key, api |-> api]

CallForecastCampaignRoi ==
    /\ lastCall = NoCall
    /\ \E channel_url \in ChannelRefs, env \in Environments,
          offer_price \in OfferPrices :
         lastCall' = Call("forecast_campaign_roi",
                          ForecastArgs(channel_url, offer_price, env[1], env[2]), "",
                          NoAssessment, FALSE,
                          forecast_campaign_roi(channel_url, offer_price, env[1], env[2]))
    /\ UNCHANGED <<emails, spc, sendLog>>
    /\ UNCHANGED orchVars

CallDetectFakeEngagement ==
    /\ lastCall = NoCall
    /\ \E channel_url \in ChannelRefs, key \in BOOLEAN, api \in ApiBehaviours :
         lastCall' = Call("detect_fake_engagement", FetchArgs(channel_url, key, api),
                          "", NoAssessment, FALSE,
                          detect_fake_engagement(channel_url, key, api))
    /\ UNCHANGED <<emails, spc, sendLog>>
    /\ UNCHANGED orchVars

PricingNext ==
    \/ CallFetchChannelData
    \/ CallCalculateOfferPrice
    \/ CallValidateCounterOffer
    \/ CallValidateCounterOfferAgain
    \/ CallGetBaseCpm
    \/ CallGetNicheMultiplier
    \/ CallForecastCampaignRoi
    \/ CallDetectFakeEngagement

PricingSpec == Init /\ [][PricingNext]_vars

-----------------------------------------------------------------------------
\* the call the server handled last
Args == lastCall.arg

\* the live lookup of the last fetch_channel_data call did not yield a
\* channel: no key, or a request raised, or a request answered no item
LiveFailed ==
    LET at == \E n \in 1..Len(Args.channel_url) : Args.channel_url[n] = "@"
    IN  \/ ~Args.key
        \/ at /\ Args.api.search # "found"
        \/ Args.api.channels # "found"

\* the profiles whose URL or handle the reference names, compared in lower case
Named(url) ==
    LET handle == LowerUrl(extract_channel_id_from_url(url))
    IN  {n \in 1..Len(youtube_profiles) :
            \/ youtube_profiles[n].channel_url = url
            \/ url # <<>> /\ handle = LowerUrl(youtube_profiles[n].handle)
            \/ url # <<>> /\ handle =
                  LowerUrl(extract_channel_id_from_url(youtube_profiles[n].channel_url))}

\* C15: fetch_channel_data never surfaces a live-API failure: when no
\* credential is configured, or the live lookup raises or yields no channel,
\* it returns the matching local profile with provenance local_fallback if
\* one exists, and success false (channel not found) only when neither the
\* live source nor the local store yields data.
C15_LiveFailureFallsBack ==
    lastCall.tool = "fetch_channel_data" =>
        /\ ~lastCall.raised
        /\ LiveFailed /\ Named(Args.channel_url) # {} =>
              /\ lastCall.result.success
              /\ lastCall.result.source = "local_fallback"
              /\ \E n \in Named(Args.channel_url) :
                    lastCall.result.data = LocalData(youtube_profiles[n])
        /\ ~lastCall.result.success <=> LiveFailed /\ Named(Args.channel_url) = {}
        /\ ~lastCall.result.success => lastCall.result.error # ""

C15_Witness ==
    /\ lastCall.tool = "fetch_channel_data"
    /\ Args.key
    /\ Args.api.search = "found"
    /\ Args.api.channels = "malformed"
    /\ Args.channel_url = Base \o <<"@", "TECHREVIEWALEX", "/", "videos">>
    /\ lastCall.result.source = "local_fallback"

-----------------------------------------------------------------------------
\* the last call was a validate_counter_offer
Validated == lastCall.tool = "validate_counter_offer"

\* the quote of the pricing engine for the channel of the last call
FairQuote == calculate_offer_price(Args.channel_url, Args.key, Args.api)

\* C16: for a resolvable channel with fair value F recomputed by the pricing
\* engine (F > 0, so that the percentage exists), validate_counter_offer
\* recommends accept when (counter - F)/F*100 <= 10, negotiate when it is
\* > 10 and <= 25, decline when it is > 25; in particular counter = 1.05*F
\* gives accept, 1.20*F negotiate, 1.60*F decline.
C16_ThresholdsOnFairValue ==
    Validated =>
        \A quote \in {FairQuote} :
            quote.success /\ quote.estimated_total_price > 0 =>
                LET F == quote.estimated_total_price
                    counter == Args.counter_price
                    rec == lastCall.result.recommendation
                IN  /\ ~lastCall.raised
                    /\ lastCall.result.fair_market_value = F
                    /\ 100 * (counter - F) <= 10 * F => rec = "accept"
                    /\ 100 * (counter - F) > 10 * F /\ 100 * (counter - F) <= 25 * F
                          => rec = "negotiate"
                    /\ 100 * (counter - F) > 25 * F => rec = "decline"
                    /\ 100 * counter = 105 * F => rec = "accept"
                    /\ 100 * counter = 120 * F => rec = "negotiate"
                    /\ 100 * counter = 160 * F => rec = "decline"

C16_Witness ==
    /\ Validated
    /\ lastCall.before = NoAssessment
    /\ Args.key
    /\ Args.api.search = "found"
    /\ Args.original_price = 100000
    /\ lastCall.result.fair_market_value = 97500
    /\ 100 * Args.counter_price = 125 * 97500
    /\ lastCall.result.recommendation = "negotiate"

\* C17: validate_counter_offer never fails the whole call: for every channel
\* reference, original price and counter price it returns a success result
\* whose recommendation is accept, negotiate or decline, and when the
\* fair-value recomputation fails the original price is the fair value.
C17_NeverFails ==
    Validated =>
        /\ ~lastCall.raised
        /\ lastCall.result.success
        /\ lastCall.result.recommendation \in {"accept", "negotiate", "decline"}
        /\ \A quote \in {FairQuote} :
              ~quote.success => lastCall.result.fair_market_value = Args.original_price

\* the last two calls were assessments and both returned
TwoAssessments ==
    /\ Validated
    /\ lastCall.before # NoAssessment
    /\ ~lastCall.raised
    /\ ~lastCall.before.raised

\* counter / fair value of an assessment in lowest terms: equal for two
\* assessments exactly when their percentage differences are equal
Ratio(assessment) ==
    LET g == GCD(assessment.counter_offer, assessment.fair_market_value)
    IN  <<assessment.counter_offer \div g, assessment.fair_market_value \div g>>

\* C18 as claimed: the recommendation is a function of the reported
\* percentage difference: two validate_counter_offer results with the same
\* difference_percentage carry the same recommendation.
C18_FunctionOfReportedDifference ==
    TwoAssessments =>
        (lastCall.result.difference_percentage10
             = lastCall.before.difference_percentage10
            => lastCall.result.recommendation = lastCall.before.recommendation)

\* C18 amended: the recommendation is a function of the percentage
\* difference before it is rounded: two results whose counter stands in the
\* same proportion to the fair value carry the same recommendation, and the
\* reported difference_percentage is that difference to the nearest tenth.
C18_FunctionOfExactDifference ==
    TwoAssessments =>
        /\ Ratio(lastCall.result) = Ratio(lastCall.before)
              => lastCall.result.recommendation = lastCall.before.recommendation
        /\ LET F == lastCall.result.fair_market_value
               exact10 == 1000 * (lastCall.result.counter_offer - F)
               shown10 == lastCall.result.difference_percentage10 * F
           IN  /\ 2 * (exact10 - shown10) <= F
               /\ 2 * (shown10 - exact10) <= F

C18_Witness ==
    /\ TwoAssessments
    /\ Ratio(lastCall.result) = Ratio(lastCall.before)
    /\ lastCall.result.fair_market_value # lastCall.before.fair_market_value
    /\ lastCall.result.recommendation = "negotiate"

C20_BaseCpmSteps ==
    lastCall.tool = "get_base_cpm" /\ lastCall.arg >= 0 =>
        LET n == lastCall.arg
            cpm == lastCall.result
        IN  /\ n < 10000 => cpm = 1250
            /\ 10000 <= n /\ n < 100000 => cpm = 2000
            /\ 100000 <= n /\ n < 1000000 => cpm = 3250
            /\ n >= 1000000 => cpm = 7000
            /\ \A m \in SubscriberCounts : m <= n => get_base_cpm(m) <= cpm

C20_Witness ==
    /\ lastCall.tool = "get_base_cpm"
    /\ lastCall.arg = 1000000
    /\ lastCall.result = 7000

-----------------------------------------------------------------------------
\* the text of the last get_niche_multiplier call, in lower case
NicheText ==
    Lower(Chars(Args.channel_title) \o <<" ">> \o Chars(Args.description))

\* a word of the text cs begins at a: a maximal run without a space
WordStart(cs, a) == cs[a] # " " /\ (a = 1 \/ cs[a - 1] = " ")

\* the text names the keyword: one of its words begins with it
Names(cs, keyword) ==
    \E a \in 1..Len(cs) :
        /\ WordStart(cs, a)
        /\ a + Len(keyword) - 1 <= Len(cs)
        /\ SubSeq(cs, a, a + Len(keyword) - 1) = keyword

NicheKeywords == {"tech", "ai", "finance", "money", "game", "gaming"}

\* C21: get_niche_multiplier returns 1.0 for lifestyle/general content that
\* names no tech, AI, finance, money or gaming niche, for example title
\* "Lifestyle" with description "Daily vlogs".
C21_GeneralContentIsDefault ==
    lastCall.tool = "get_niche_multiplier" =>
        ((\A k \in NicheKeywords : ~Names(NicheText, Chars(k)))
            => lastCall.result = 10)

\* the text holds the keyword somewhere, whatever the case of its letters
Holds(keyword) == Contains(NicheText, Chars(keyword))

\* C22: get_niche_multiplier matches keywords case-insensitively over title
\* plus description, the first match winning in the order tech/ai (1.2),
\* finance/money (1.4), game/gaming (0.9): a text with a tech/ai keyword
\* yields 1.2 even when it also holds a finance or gaming keyword, and a
\* text with a finance/money keyword and no tech/ai keyword yields 1.4 even
\* when it also holds a gaming keyword.
C22_FirstNicheMatchWins ==
    lastCall.tool = "get_niche_multiplier" =>
        /\ Holds("tech") \/ Holds("ai") => lastCall.result = 12
        /\ ~(Holds("tech") \/ Holds("ai")) /\ (Holds("finance") \/ Holds("money"))
              => lastCall.result = 14
        /\ ~(Holds("tech") \/ Holds("ai")) /\ ~(Holds("finance") \/ Holds("money"))
              /\ (Holds("game") \/ Holds("gaming")) => lastCall.result = 9
        /\ (\A k \in NicheKeywords : ~Holds(k)) => lastCall.result = 10

C22_Witness ==
    /\ lastCall.tool = "get_niche_multiplier"
    /\ Args.channel_title = "Finance Tips"
    /\ Args.description = "AI and technology"
    /\ lastCall.result = 12

-----------------------------------------------------------------------------
(* The reported CPM and the reported total price *)

Quoted == lastCall.tool = "calculate_offer_price" /\ lastCall.result.success

\* base CPM in cents times the three multipliers in tenths, as reported
ReportedProduct ==
    lastCall.result.base_cpm * lastCall.result.engagement
        * lastCall.result.niche * lastCall.result.consistency

\* cents is num / den rounded to the nearest integer, ties to even
IsRounded(cents, num, den) ==
    /\ 2 * cents * den - 2 * num <= den
    /\ 2 * num - 2 * cents * den <= den
    /\ (2 * cents * den - 2 * num = den \/ 2 * num - 2 * cents * den = den)
          => cents % 2 = 0

\* cents is (views10 / 10000) * (thousandths / 1000) rounded, with the
\* fraction reduced before it is multiplied out
IsPriceOf(cents, views10, thousandths) ==
    \A g1 \in {GCD(views10, 10000000)} :
      \A g2 \in {GCD(thousandths, 10000000 \div g1)} :
        IsRounded(cents, (views10 \div g1) * (thousandths \div g2),
                  (10000000 \div g1) \div g2)

\* C23 as stated: in every successful calculate_offer_price result final_cpm
\* is base_cpm x engagement x niche x consistency rounded to 2 decimals, and
\* estimated_total_price is (avg_views / 1000) x that reported final_cpm,
\* rounded to 2 decimals
C23_PriceFromReportedCpm ==
    Quoted =>
        /\ IsRounded(lastCall.result.final_cpm, ReportedProduct, 1000)
        /\ IsPriceOf(lastCall.result.estimated_total_price,
                     lastCall.result.avg_views10, 1000 * lastCall.result.final_cpm)

\* C23 amended: final_cpm is the product of the base CPM and the three
\* multipliers rounded to 2 decimals, and estimated_total_price is
\* (avg_views / 1000) x the product before it is rounded, rounded to 2
\* decimals; 50,000 subscribers, 5,000 views, the default niche and medium
\* consistency at engagement 1.0 give 20.00 and 100.00
C23_PriceFromExactCpm ==
    Quoted =>
        /\ IsRounded(lastCall.result.final_cpm, ReportedProduct, 1000)
        /\ IsPriceOf(lastCall.result.estimated_total_price,
                     lastCall.result.avg_views10, ReportedProduct)
        /\ (/\ lastCall.result.subscribers = 50000
            /\ lastCall.result.avg_views10 = 50000
            /\ lastCall.result.engagement = 10
            /\ lastCall.result.niche = 10
            /\ lastCall.result.consistency = 10)
              => /\ lastCall.result.final_cpm = 2000
                 /\ lastCall.result.estimated_total_price = 10000

\* a quote whose CPM has more than two decimals: 12.50 x 0.7 x 0.9 x 0.9 is
\* 7.0875, reported as 7.09, and 3,000 views are priced at 21.26
C23_Witness ==
    /\ Quoted
    /\ ReportedProduct = 708750
    /\ lastCall.result.final_cpm = 709
    /\ lastCall.result.avg_views10 = 30000
    /\ lastCall.result.estimated_total_price = 2126

-----------------------------------------------------------------------------
(* The ROI recommendation *)

Forecasted == lastCall.tool = "forecast_campaign_roi" /\ lastCall.result.success

\* is revenue / offer_price at least n, the revenue in dollars and the offer
\* in cents, with 0 for an offer that is not positive
RoasAtLeast(n) ==
    /\ Args.offer_price > 0
    /\ 100 * lastCall.result.estimated_revenue >= n * Args.offer_price

\* C24 as stated: in every successful forecast_campaign_roi result the
\* recommendation is bucketed by ROAS = revenue / offer_price (0 when
\* offer_price <= 0): strongly_recommend exactly when ROAS >= 3, recommend
\* when 2 <= ROAS < 3, proceed_with_caution when 1 <= ROAS < 2, reconsider
\* when ROAS < 1
C24_BucketedByExactRoas ==
    Forecasted =>
        /\ lastCall.result.recommendation = "strongly_recommend" <=> RoasAtLeast(3)
        /\ (RoasAtLeast(2) /\ ~RoasAtLeast(3))
              => lastCall.result.recommendation = "recommend"
        /\ (RoasAtLeast(1) /\ ~RoasAtLeast(2))
              => lastCall.result.recommendation = "proceed_with_caution"
        /\ ~RoasAtLeast(1) => lastCall.result.recommendation = "reconsider"

\* C24 amended: the recommendation is bucketed by the reported roas, which is
\* revenue / offer_price rounded to 2 decimals (0 when offer_price <= 0):
\* strongly_recommend exactly when it is at least 3, recommend from 2,
\* proceed_with_caution from 1, reconsider below 1
C24_BucketedByReportedRoas ==
    Forecasted =>
        /\ IF Args.offer_price > 0
           THEN IsRounded(lastCall.result.roas,
                          10000 * lastCall.result.estimated_revenue, Args.offer_price)
           ELSE lastCall.result.roas = 0
        /\ lastCall.result.recommendation = "strongly_recommend"
              <=> lastCall.result.roas >= 300
        /\ lastCall.result.recommendation = "recommend"
              <=> (lastCall.result.roas >= 200 /\ lastCall.result.roas < 300)
        /\ lastCall.result.recommendation = "proceed_with_caution"
              <=> (lastCall.result.roas >= 100 /\ lastCall.result.roas < 200)
        /\ lastCall.result.recommendation = "reconsider"
              <=> lastCall.result.roas < 100

\* a forecast whose revenue is just under three times the offer and whose
\* reported roas is 3.0
C24_Witness ==
    /\ Forecasted
    /\ lastCall.result.estimated_revenue > 0
    /\ ~RoasAtLeast(3)
    /\ lastCall.result.roas = 300
    /\ lastCall.result.recommendation = "strongly_recommend"

-----------------------------------------------------------------------------
(* The authenticity score *)

Analysed == lastCall.tool = "detect_fake_engagement" /\ lastCall.result.success

\* the deduction that goes with a red flag
PenaltyOf(flag) ==
    CASE flag = "Very low view-to-subscriber ratio" -> 25
      [] flag = "Below average view-to-subscriber ratio" -> 10
      [] flag = "Unusually high engagement rate" -> 15
      [] flag = "Extremely low engagement" -> 20
      [] flag = "Inconsistent video performance" -> 5
      [] flag = "Unusual subscriber-to-content ratio" -> 10
      [] flag = "Total views don't match average" -> 15

\* the flags raised in the call
Flags == {lastCall.result.red_flags[k].flag : k \in 1..Len(lastCall.result.red_flags)}

RECURSIVE Penalties(_)
Penalties(flags) ==
    IF flags = {} THEN 0
    ELSE LET flag == CHOOSE f \in flags : TRUE
         IN  PenaltyOf(flag) + Penalties(flags \ {flag})

\* C25: in every successful detect_fake_engagement result authenticity_score
\* is 100 minus the sum of the penalties of all triggered checks, clamped to
\* [0, 100]: every check is evaluated and raises its flag whatever the checks
\* before it found, and the score is never below 0 or above 100
C25_ScoreIsHundredLessPenalties ==
    Analysed =>
        /\ Cardinality(Flags) = Len(lastCall.result.red_flags)
        /\ lastCall.result.authenticity_score
              = (IF Penalties(Flags) > 100 THEN 0 ELSE 100 - Penalties(Flags))
        /\ lastCall.result.authenticity_score \in 0..100
        /\ "Unusual subscriber-to-content ratio" \in Flags
              <=> /\ lastCall.result.video_count \in 1..19
                  /\ lastCall.result.subscribers > 50000 * lastCall.result.video_count
        /\ ("Unusually high engagement rate" \in Flags)
              <=> lastCall.result.engagement_rate > 5000

\* an analysis in which all five checks trigger: 25 + 20 + 5 + 10 + 15
C25_Witness ==
    /\ Analysed
    /\ Len(lastCall.result.red_flags) = 5
    /\ lastCall.result.authenticity_score = 25

\* is the reported total less than 0.3 x (avg_views x video_count x 0.8)
TotalViewsFallShort ==
    100 * lastCall.result.total_views
        < 24 * lastCall.result.avg_views * lastCall.result.video_count

TotalViewsFlagged ==
    \E k \in 1..Len(lastCall.result.red_flags) :
        /\ lastCall.result.red_flags[k].flag = "Total views don't match average"
        /\ lastCall.result.red_flags[k].severity = "medium"

\* C26 as stated: the total-view sanity check applies its 15-point medium
\* penalty whenever the reported total views are less than
\* 0.3 x (avg_views x video_count x 0.8), and never otherwise
C26_FlaggedWheneverShort ==
    Analysed => (TotalViewsFlagged <=> TotalViewsFallShort)

\* C26 amended: the total-view sanity check applies its 15-point medium
\* penalty exactly when the reported total views are positive and less than
\* 0.3 x (avg_views x video_count x 0.8); a channel that reports no total
\* views is not penalised
C26_FlaggedWhenPositiveAndShort ==
    Analysed =>
        /\ TotalViewsFlagged
              <=> (lastCall.result.total_views > 0 /\ TotalViewsFallShort)
        /\ lastCall.result.authenticity_score
              = 100 - Penalties(Flags \ {"Total views don't match average"})
                    - (IF lastCall.result.total_views > 0 /\ TotalViewsFallShort
                       THEN 15 ELSE 0)

\* a channel that reports no total views although its videos have views, and
\* is not flagged for it
C26_Witness ==
    /\ Analysed
    /\ lastCall.result.total_views = 0
    /\ TotalViewsFallShort
    /\ ~TotalViewsFlagged

-----------------------------------------------------------------------------
(* What the endpoints answer *)

Requested(endpoint) == lastCall.tool = endpoint

\* C27: GET /api/emails/{thread_id} for a thread id that is not in the store
\* answers with a response body whose success field is false
C27_UnknownThreadAnswersSuccessFalse ==
    (/\ Requested("GET /api/emails/{thread_id}")
     /\ Args.thread_id \notin DOMAIN lastCall.before
     /\ Args.session = "ok")
        => /\ "success" \in DOMAIN lastCall.result.body
           /\ lastCall.result.body.success = FALSE

\* the error text inside the server in a request: the failed tool's error
\* string, or the message of the exception raised
InternalErrorTexts ==
    {Args.session, get_email_thread(lastCall.before, Args.thread_id).error} \ {"ok", ""}

\* C28: an endpoint translates a tool failure or an internal exception into a
\* structured error whose text is not the internal error text verbatim: the
\* tool's error string or the exception message never appears unchanged in
\* the client response
C28_NoInternalTextInResponse ==
    (/\ Requested("GET /api/emails") \/ Requested("GET /api/emails/{thread_id}")
     /\ lastCall.result.status >= 400)
        => lastCall.result.body.detail \notin InternalErrorTexts

-----------------------------------------------------------------------------
(* Requests that are turned away *)

\* the tool calls made for send request r
CallsOf(r) == {k \in 1..Len(sendLog) : sendLog[k].req = r}

\* C29: POST /api/send with a missing or empty thread_id or content is
\* rejected with HTTP 400, and neither send_reply nor mark_as_processed is
\* called, so the thread store is unchanged
C29_IncompleteSendIsRejectedWith400 ==
    \A r \in 1..MaxRequests :
        (spc[r].pc = "done" /\ (spc[r].thread_id = "" \/ spc[r].content = ""))
            => /\ spc[r].status = 400
               /\ CallsOf(r) = {}

\* the orchestrator was not entered: no history, no completion call, no tool
\* call of the loop
NotEntered == messages = <<>> /\ llmCalls = 0 /\ toolLog = <<>> /\ pc = "done"

LookupFailed == lastCall.tool = "get_email_thread" /\ ~lastCall.result.success

\* C30: POST /api/generate without a thread_id is rejected with HTTP 400 and
\* with a thread id that is not in the store with HTTP 404; in both cases
\* agent_orchestrator is never entered: the provider is not invoked and no
\* tool is called besides the get_email_thread lookup, which a request
\* without a thread_id does not reach either
C30_RejectedBeforeOrchestrator ==
    /\ (pc # "idle" /\ lastCall = NoCall)
          => (response.status = 400 /\ NotEntered)
    /\ LookupFailed => (response.status = 404 /\ NotEntered)
    /\ response.status = 400 => lastCall = NoCall
    /\ response.status = 404 => LookupFailed
    /\ emails = InitialEmails

\* a request for a thread that is not in the store, answered 404
C30_Witness ==
    /\ LookupFailed
    /\ lastCall.arg \notin DOMAIN emails
    /\ response.status = 404
    /\ llmCalls = 0

====
